---- MODULE Spec2Model ----
(***************************************************************************)
(* Frame combination and outlier rejection of PyReduce                     *)
(* (src/pyreduce/combine_frames.py).                                       *)
(*                                                                         *)
(* Pixel values, probabilities and fitted signals are exact rationals      *)
(* <<numerator, denominator>> with a positive denominator and in lowest    *)
(* terms; numpy's floating point rounding is not modelled.  Arrays keep    *)
(* the zero-based indices of the source: a row is a function on 0..L-1,    *)
(* a stack of rows a function on 0..N-1.                                   *)
(***************************************************************************)
EXTENDS Integers, Sequences, FiniteSets, TLC

----------------------------------------------------------------------------
(* Exact rational arithmetic (stands for numpy float arithmetic).          *)

Abs(n) == IF n < 0 THEN -n ELSE n

Min(a, b) == IF a <= b THEN a ELSE b

Max(a, b) == IF a >= b THEN a ELSE b

RECURSIVE GCD(_, _)
GCD(a, b) == IF b = 0 THEN a ELSE GCD(b, a % b)

Rat(n, d) ==
    LET g == GCD(Abs(n), d)
    IN  IF n = 0 THEN <<0, 1>> ELSE <<n \div g, d \div g>>

RInt(n) == <<n, 1>>

RZero == <<0, 1>>

RAdd(x, y) ==
    LET g == GCD(x[2], y[2])
    IN  Rat(x[1] * (y[2] \div g) + y[1] * (x[2] \div g), (x[2] \div g) * y[2])

RNeg(x) == <<-x[1], x[2]>>

RSub(x, y) == RAdd(x, RNeg(y))

RMul(x, y) ==
    LET a == Rat(x[1], y[2])
        b == Rat(y[1], x[2])
    IN  Rat(a[1] * b[1], a[2] * b[2])

\* x / y for y # 0
RDiv(x, y) ==
    IF y[1] > 0 THEN RMul(x, <<y[2], y[1]>>)
    ELSE RMul(x, <<-y[2], -y[1]>>)

RLt(x, y) == x[1] * y[2] < y[1] * x[2]

RLe(x, y) == x[1] * y[2] <= y[1] * x[2]

RPos(x) == x[1] > 0

\* q > sqrt(t) for t >= 0, decided without taking the root
RGtSqrt(q, t) ==
    IF q[1] <= 0 THEN FALSE
    ELSE LET fl == q[1] \div q[2]
         IN  IF RLt(t, RInt(fl * fl)) THEN TRUE
             ELSE IF RLe(RInt((fl + 1) * (fl + 1)), t) THEN FALSE
             ELSE q[1] * q[1] * t[2] > t[1] * q[2] * q[2]

\* q < sqrt(t) for t >= 0 and q >= 0
RLtSqrt(q, t) ==
    LET fl == q[1] \div q[2]
    IN  IF RLe(t, RInt(fl * fl)) THEN FALSE
        ELSE IF RLe(RInt((fl + 1) * (fl + 1)), t) THEN TRUE
        ELSE q[1] * q[1] * t[2] < t[1] * q[2] * q[2]

\* d > threshold * noise, where noise = sqrt(noise2)
GtScaledSqrt(d, threshold, noise2) ==
    IF threshold[1] = 0 THEN RPos(d)
    ELSE IF threshold[1] > 0 THEN RGtSqrt(RDiv(d, threshold), noise2)
    ELSE \/ d[1] > 0
         \/ d[1] <= 0 /\ RLtSqrt(RDiv(d, threshold), noise2)

\* number of columns of a zero-based row, and of a stack of rows
Width(row) == Cardinality(DOMAIN row)

NCols(arr) == IF DOMAIN arr = {} THEN 0 ELSE Width(arr[0])

RECURSIVE SumRange(_, _, _)
\* f[lo] + ... + f[hi], summed by halves
SumRange(f, lo, hi) ==
    IF lo > hi THEN RZero
    ELSE IF lo = hi THEN f[lo]
    ELSE LET mid == (lo + hi) \div 2
         IN  RAdd(SumRange(f, lo, mid), SumRange(f, mid + 1, hi))

\* sum of a zero-based vector of rationals (np.sum over one axis)
RSum(f) == SumRange(f, 0, Width(f) - 1)

RMinOf(f) == CHOOSE x \in {f[i] : i \in DOMAIN f} :
                 \A y \in {f[i] : i \in DOMAIN f} : RLe(x, y)

RMaxOf(f) == CHOOSE x \in {f[i] : i \in DOMAIN f} :
                 \A y \in {f[i] : i \in DOMAIN f} : RLe(y, x)

----------------------------------------------------------------------------
(* Windowed statistics.                                                    *)

\* np.cumsum along a row
cumsum(row) ==
    [i \in DOMAIN row |-> SumRange(row, 0, i)]

\* the subtraction starting one column late
subtract_shifted_late(ret, size) ==
    [i \in DOMAIN ret |->
        IF i > size THEN RSub(ret[i], ret[i - size]) ELSE ret[i]]

\* ret[:, size:] -= ret[:, :-size], for the cumulative sums ret of one row
subtract_shifted(ret, size) ==
    [i \in DOMAIN ret |->
        IF i >= size THEN RSub(ret[i], ret[i - size]) ELSE ret[i]]

\* ret[:, size - 1:]
cut_front(ret, size) ==
    [j \in 0..(Width(ret) - size) |-> ret[j + size - 1]]

\* running_sum for one row: cumulative sum, minus the cumulative sum
\* shifted by size, cut at size - 1
running_sum_row(row, size) ==
    cut_front(subtract_shifted(cumsum(row), size), size)

running_sum(arr, size) == [f \in DOMAIN arr |-> running_sum_row(arr[f], size)]

\* the windowed sum written out, for comparison
naive_sum(row, i, size) == RSum([k \in 0..(size - 1) |-> row[i + k]])

\* median of size values (size odd): the element of rank size \div 2
\* (scipy median_filter)
median_at(row, lo, size) ==
    LET win == [k \in 0..(size - 1) |->
                   IF lo + k \in DOMAIN row THEN row[lo + k] ELSE RZero]
    IN  CHOOSE x \in {win[k] : k \in DOMAIN win} :
            /\ Cardinality({k \in DOMAIN win : RLt(win[k], x)}) <= size \div 2
            /\ Cardinality({k \in DOMAIN win : RLe(win[k], x)}) > size \div 2

\* running_median for one row: median filter over the zero-padded row
\* (mode "constant"), then size \div 2 values cut at both ends
running_median_row(row, size) ==
    LET L   == Width(row)
        m   == size \div 2
        ret == [i \in 0..(L - 1) |-> median_at(row, i - m, size)]
    IN  IF m = 0 THEN [j \in {} |-> RZero]
        ELSE [j \in 0..(L - 2 * m - 1) |-> ret[j + m]]

running_median(arr, size) ==
    [f \in DOMAIN arr |-> running_median_row(arr[f], size)]

----------------------------------------------------------------------------
(* Probability estimation.                                                 *)

Methods == {"sum", "median"}

\* weights before normalisation: one windowed statistic per frame
weights_of(buffer, window, method) ==
    IF method = "median" THEN running_median(buffer, 2 * window + 1)
    ELSE running_sum(buffer, 2 * window + 1)

\* the mean over the frames whatever the method
sum_of_weights_mean(wcol, method) ==
    RDiv(RSum(wcol), RInt(Width(wcol)))

\* the value the weights of one column are divided by: their sum over the
\* frames for "sum", their mean over the frames for "median"
sum_of_weights(wcol, method) ==
    IF method = "median" THEN RDiv(RSum(wcol), RInt(Width(wcol)))
    ELSE RSum(wcol)

\* np.divide(weights, sum_of_weights, where=sum_of_weights > 0, out=weights)
\* for one column wcol (a vector over the frames)
normalize(wcol, method) ==
    LET sow == sum_of_weights(wcol, method)
    IN  IF RPos(sow) THEN [f \in DOMAIN wcol |-> RDiv(wcol[f], sow)]
        ELSE wcol

\* the columns cols (each a vector over the frames) as a stack of rows
rows_of(cols, frames) ==
    [f \in frames |-> [c \in DOMAIN cols |-> cols[c][f]]]

\* the weights divided, column by column
normalize_all(weights, method) ==
    rows_of([c \in 0..(NCols(weights) - 1) |->
                normalize([f \in DOMAIN weights |-> weights[f][c]], method)],
            DOMAIN weights)

\* calculate_probability: a stack of N rows of L - 2 * window values
calculate_probability(buffer, window, method) ==
    normalize_all(weights_of(buffer, window, method), method)

----------------------------------------------------------------------------
(* Edge extrapolation of the probability buffer, with the shapes numpy     *)
(* gives the slices: an assignment succeeds when the value has as many     *)
(* columns as the target, or exactly one (broadcast).                      *)

ShapeFits(src, dst) == src = dst \/ src = 1

\* probability[:, window:-window] = calculate_probability(buffer, window)
central_t(L, w) == IF w = 0 THEN 0 ELSE Max(L - 2 * w, 0)

central_ok(L, w, n) == ShapeFits(n, central_t(L, w))

assign_central(prob, cp, w) ==
    LET L == NCols(prob)
        n == NCols(cp)
        t == central_t(L, w)
    IN  [f \in DOMAIN prob |-> [c \in 0..(L - 1) |->
            IF c >= w /\ c < w + t
            THEN (IF n = t THEN cp[f][c - w] ELSE cp[f][0])
            ELSE prob[f][c]]]

\* probability[:, :window] =
\*     2 * probability[:, window][:, None] - probability[:, 2 * window: window: -1]
left_t(L, w) == Min(w, L)

left_k(L, w) == Max(Min(2 * w, L - 1) - w, 0)

left_ok(L, w) == w < L /\ ShapeFits(left_k(L, w), left_t(L, w))

left_src(L, w, c) ==
    IF left_k(L, w) = left_t(L, w) THEN Min(2 * w, L - 1) - c
    ELSE Min(2 * w, L - 1)

assign_left(prob, w) ==
    LET L == NCols(prob)
    IN  [f \in DOMAIN prob |-> [c \in 0..(L - 1) |->
            IF c < left_t(L, w)
            THEN RSub(RMul(RInt(2), prob[f][w]), prob[f][left_src(L, w, c)])
            ELSE prob[f][c]]]

\* probability[:, -window:] =
\*     2 * probability[:, -window - 1][:, None]
\*     - probability[:, -window - 1: -2 * window - 1: -1]
right_t(L, w) == IF w = 0 THEN L ELSE Min(w, L)

right_k(L, w) == IF L - 2 * w - 1 >= 0 THEN w ELSE L - w

right_ok(L, w) == w + 1 <= L /\ ShapeFits(right_k(L, w), right_t(L, w))

right_src(L, w, c) ==
    IF right_k(L, w) = right_t(L, w)
    THEN (L - w - 1) - (c - (L - right_t(L, w)))
    ELSE L - w - 1

assign_right(prob, w) ==
    LET L == NCols(prob)
    IN  [f \in DOMAIN prob |-> [c \in 0..(L - 1) |->
            IF c >= L - right_t(L, w)
            THEN RSub(RMul(RInt(2), prob[f][L - w - 1]),
                      prob[f][right_src(L, w, c)])
            ELSE prob[f][c]]]

\* the three assignments of one row succeed
extrapolate_ok(L, w) ==
    /\ central_ok(L, w, IF L - 2 * w > 0 THEN L - 2 * w ELSE 0)
    /\ left_ok(L, w)
    /\ right_ok(L, w)

\* the probability buffer after the three assignments of one row
extrapolate(prob, buffer, w) ==
    LET p1 == assign_central(prob, calculate_probability(buffer, w, "sum"), w)
        p2 == assign_left(p1, w)
    IN  assign_right(p2, w)

----------------------------------------------------------------------------
(* Robust fit of one row.  The arrays of the source are taken column by    *)
(* column: p and b are the probabilities and the buffer of one column,     *)
(* vectors over the frames.                                                *)

column(arr, c) == [f \in DOMAIN arr |-> arr[f][c]]

\* np.divide(buffer, probability, where=probability > 0, out=ratio)
ratio(p, b) ==
    [f \in DOMAIN b |-> IF RPos(p[f]) THEN RDiv(b[f], p[f]) ELSE RZero]

\* (sum - min) / (number of frames - 1): the largest ratio is kept
trimmed_mean_low_only(r) ==
    RDiv(RSub(RSum(r), RMinOf(r)), RInt(Width(r) - 1))

\* (sum - min - max) / (number of frames - 2), of the ratios r
trimmed_mean(r) ==
    RDiv(RSub(RSub(RSum(r), RMinOf(r)), RMaxOf(r)), RInt(Width(r) - 2))

amplitude(p, b) == trimmed_mean(ratio(p, b))

\* np.where(probability > 0, amplitude[None, :] * probability, 0)
scaled(a, p) ==
    [f \in DOMAIN p |-> IF RPos(p[f]) THEN RMul(a, p[f]) ELSE RZero]

fitted_signal(p, b) == scaled(amplitude(p, b), p)

\* readnoise ** 2 + max(fitted_signal / gain, 0)
predicted_noise2_shot_guarded(fitted, readnoise, gain) ==
    [f \in DOMAIN fitted |->
        IF RDiv(fitted[f], gain)[1] >= 0
        THEN RAdd(RMul(readnoise, readnoise), RDiv(fitted[f], gain))
        ELSE RMul(readnoise, readnoise)]

\* square of predicted_noise: readnoise ** 2 + fitted_signal / gain where
\* that is not negative, else 0
predicted_noise2(fitted, readnoise, gain) ==
    [f \in DOMAIN fitted |->
        IF RAdd(RMul(readnoise, readnoise), RDiv(fitted[f], gain))[1] >= 0
        THEN RAdd(RMul(readnoise, readnoise), RDiv(fitted[f], gain))
        ELSE RZero]

\* abs(buffer - fitted_signal) > threshold * predicted_noise
outliers_two_sided(b, fitted, noise2, threshold) ==
    {f \in DOMAIN b :
        GtScaledSqrt(<<Abs(RSub(b[f], fitted[f])[1]), RSub(b[f], fitted[f])[2]>>,
                     threshold, noise2[f])}

\* buffer - fitted_signal > threshold * predicted_noise: the frames flagged
outliers(b, fitted, noise2, threshold) ==
    {f \in DOMAIN b : GtScaledSqrt(RSub(b[f], fitted[f]), threshold, noise2[f])}

\* np.where(badpixels, buffer, fitted_signal), summed over the frames
replaced_sum_swapped(b, fitted, bad) ==
    RSum([f \in DOMAIN b |-> IF f \in bad THEN b[f] ELSE fitted[f]])

\* np.where(badpixels, fitted_signal, buffer), summed over the frames
replaced_sum(b, fitted, bad) ==
    RSum([f \in DOMAIN b |-> IF f \in bad THEN fitted[f] ELSE b[f]])

fix_fitted(b, fitted, readnoise, gain, threshold) ==
    [fitted |-> fitted,
     bad    |-> outliers(b, fitted, predicted_noise2(fitted, readnoise, gain),
                         threshold)]

fix_flagged(b, fb) ==
    [value |-> replaced_sum(b, fb.fitted, fb.bad), bad |-> fb.bad,
     fitted |-> fb.fitted]

\* one column of fix_bad_pixels: the co-added value, the frames flagged
\* and the fit
fix_column(p, b, readnoise, gain, threshold) ==
    fix_flagged(b, fix_fitted(b, fitted_signal(p, b), readnoise, gain, threshold))

fix_pack(cols, frames) ==
    [corrected_signal |-> [c \in DOMAIN cols |-> cols[c].value],
     nbad |-> Cardinality({fc \in frames \X (DOMAIN cols) :
                              fc[1] \in cols[fc[2]].bad}),
     bad  |-> [c \in DOMAIN cols |-> cols[c].bad]]

\* fix_bad_pixels: the corrected, co-added row, the number of flagged
\* pixels, and the flagged frames of each column
fix_bad_pixels(probability, buffer, readnoise, gain, threshold) ==
    fix_pack([c \in 0..(NCols(buffer) - 1) |->
                 fix_column(column(probability, c), column(buffer, c),
                            readnoise, gain, threshold)],
             DOMAIN buffer)

----------------------------------------------------------------------------
(* The files of one call and what the instrument loader gives for them.    *)
(*                                                                         *)
(* A call is described by the record call:                                 *)
(*   entry       the entry point called                                    *)
(*   n           number of files                                           *)
(*   rows, cols  NAXIS2, NAXIS1 of the files                               *)
(*   odd, drow, dcol   file odd (if any, else -1) has drow more rows and   *)
(*               dcol more columns than the others                         *)
(*   level, ramp file i holds level + i * ramp at every pixel ...          *)
(*   hitf, hitr, hitc, hitv   ... but file hitf (if any, else -1) holds    *)
(*               hitv at pixel (hitr, hitc)                                *)
(*   bscale, bzero   linear rescale of the stored values                   *)
(*   orient, prescan_x, overscan_x, prescan_y, overscan_y, gain, readn,    *)
(*   linear      what the instrument mode says of the detector             *)
(*   ampl, split, readn2   the number of amplifier sections (E_AMPL, 1 or  *)
(*               2); with two, the first section ends and the second       *)
(*               begins at column split, and the second has read noise     *)
(*               readn2 (keywords of the second section as stored in the   *)
(*               files)                                                    *)
(*   window, threshold   the arguments of combine_frames                   *)
(*   header_only what the load_fits of the instrument returns when it is   *)
(*               called with header_only=True: "header", the header alone  *)
(*               (Instrument.load_fits), or "pair", a pair that ends with  *)
(*               the header (what combine_frames unpacks)                  *)
(*   first       the position, in the list given to combine_bias, of the    *)
(*               first file of the call (0 in every other call)            *)
(*   total       the number of files given to combine_bias                 *)
(* No bad pixel mask is passed (the default).                              *)

(* flagged collects the pixels <<file, row, column>> that fix_bad_pixels    *)
(* flagged; args and ret are the arguments and the value of a function     *)
(* that is called on its own.  In combine_bias, which calls combine_frames *)
(* on the two halves of its list of files, half tells which half is being  *)
(* combined (0 outside combine_bias), list1 keeps what the first half      *)
(* gave, and call.first is the position in the whole list of the first     *)
(* file of the half (0 in every other call).                               *)

VARIABLES call, pc, outcome, n_loaded, head, result, n_fixed, window,
          amplifier, row, buffer, probability, flagged, orig, args, ret,
          half, list1

vars == <<call, pc, outcome, n_loaded, head, result, n_fixed, window,
          amplifier, row, buffer, probability, flagged, orig, args, ret, half, list1>>

Files == 0..(call.n - 1)

\* the position of file i of the call in the list it was taken from
FileNo(i) == call.first + i

FileRows(i) ==
    IF FileNo(i) = call.odd THEN call.rows + call.drow ELSE call.rows

FileCols(i) ==
    IF FileNo(i) = call.odd THEN call.cols + call.dcol ELSE call.cols

\* the value stored in file i at (r, c)
Stored(i, r, c) ==
    IF FileNo(i) = call.hitf /\ r = call.hitr /\ c = call.hitc THEN call.hitv
    ELSE call.level + FileNo(i) * call.ramp

\* data * bscale + bzero
Scaled(i, r, c) == RInt(Stored(i, r, c) * call.bscale + call.bzero)

ExpTime(i) == FileNo(i) + 1

\* add_header_info: the keywords combine_frames reads from the header of
\* file i
Header(i) ==
    [naxis1   |-> FileCols(i),
     naxis2   |-> FileRows(i),
     exptime  |-> ExpTime(i),
     e_orient |-> call.orient,
     e_ampl   |-> call.ampl,
     e_xlo    |-> IF call.ampl = 1 THEN <<call.prescan_x>>
                  ELSE <<call.prescan_x, call.split>>,
     e_xhi    |-> IF call.ampl = 1 THEN <<FileCols(i) - call.overscan_x>>
                  ELSE <<call.split, FileCols(i) - call.overscan_x>>,
     e_ylo    |-> [k \in 1..call.ampl |-> call.prescan_y],
     e_yhi    |-> [k \in 1..call.ampl |-> FileRows(i) - call.overscan_y],
     e_gain   |-> [k \in 1..call.ampl |-> RInt(call.gain)],
     e_readn  |-> IF call.ampl = 1 THEN <<RInt(call.readn)>>
                  ELSE <<RInt(call.readn), RInt(call.readn2)>>,
     e_linear |-> call.linear,
     bscale   |-> call.bscale,
     bzero    |-> call.bzero]

\* the pixels <<row, column>> of an image of nr rows and nc columns
Pixels(nr, nc) == (0..(nr - 1)) \X (0..(nc - 1))

\* an image: its shape <<rows, columns>> and its pixel values, taken from
\* the function val on the pixels
Image(nr, nc, val) ==
    [shape |-> <<nr, nc>>, data |-> [rc \in Pixels(nr, nc) |-> val[rc]]]

NoImage == [shape |-> <<0, 0>>, data |-> [rc \in {} |-> RZero]]

\* clipnflip: the image cut to the rectangle [ylo, yhi) x [xlo, xhi) that
\* the sections of the header span (the rotation that follows rearranges
\* the pixels and is left out)
clipnflip(img, h) ==
    LET xlo == Min(h.e_xlo[1], img.shape[2])
        xhi == Max(Min(h.e_xhi[h.e_ampl], img.shape[2]), xlo)
        ylo == Min(h.e_ylo[1], img.shape[1])
        yhi == Max(Min(h.e_yhi[h.e_ampl], img.shape[1]), ylo)
    IN  [shape |-> <<yhi - ylo, xhi - xlo>>,
         data  |-> [rc \in (0..(yhi - ylo - 1)) \X (0..(xhi - xlo - 1)) |->
                       img.data[<<rc[1] + ylo, rc[2] + xlo>>]]]

\* the array as stored in file i, rescaled
RawImage(i) ==
    Image(FileRows(i), FileCols(i),
          [rc \in Pixels(FileRows(i), FileCols(i)) |-> Scaled(i, rc[1], rc[2])])

\* Instrument.load_fits: the clipped image of file i
load_fits(i) == clipnflip(RawImage(i), Header(i))

\* the header combine_frames returns: the keywords it writes, -1 where
\* it wrote none; rdnoise[k] = <<r, n>> stands for r * sqrt(n)
LoadedHead(i) ==
    [exptime |-> ExpTime(i), darktime |-> -1, nimages |-> -1,
     npixfix |-> -1, rdnoise |-> << >>, e_input |-> i]

NoHead == [exptime |-> -1, darktime |-> -1, nimages |-> -1,
           npixfix |-> -1, rdnoise |-> << >>, e_input |-> -1]

NoBuffer == [f \in {} |-> [c \in {} |-> RZero]]

----------------------------------------------------------------------------
(* combine_frames.                                                         *)

\* the call ends with an exception: nothing is returned
Raise(error) ==
    /\ pc' = "done"
    /\ outcome' = error
    /\ result' = NoImage
    /\ head' = NoHead

\* an empty list answered with an empty frame
ReturnNoFiles ==
    /\ pc = "start"
    /\ call.n = 0
    /\ pc' = "done"
    /\ outcome' = "returned"
    /\ UNCHANGED <<call, n_loaded, head, result, n_fixed, window, amplifier,
                   row, buffer, probability, flagged, orig, args, ret, half, list1>>

\* len(files) == 0: raise ValueError
RaiseNoFiles ==
    /\ pc = "start"
    /\ call.n = 0
    /\ Raise("ValueError")
    /\ UNCHANGED <<call, n_loaded, n_fixed, window, amplifier, row, buffer,
                   probability, flagged, orig, args, ret, half, list1>>

\* where combine_frames hands its result to: the caller, the calibration
\* of combine_calibrate, or combine_bias
AfterReturn ==
    IF call.entry = "combine_calibrate" THEN "calibrate"
    ELSE IF call.entry = "combine_bias" THEN "half"
    ELSE "done"

\* a single file answered with a frame of zeros
ReturnSingleZeroed ==
    /\ pc = "start"
    /\ call.n = 1
    /\ n_loaded' = n_loaded + 1
    /\ result' = [load_fits(0) EXCEPT !.data =
                     [rc \in DOMAIN load_fits(0).data |-> RZero]]
    /\ head' = LoadedHead(0)
    /\ pc' = AfterReturn
    /\ outcome' = IF AfterReturn = "done" THEN "returned" ELSE outcome
    /\ UNCHANGED <<call, n_fixed, window, amplifier, row, buffer,
                   probability, flagged, orig, args, ret, half, list1>>

\* len(files) == 1: the loaded image and its header are returned
ReturnSingle ==
    /\ pc = "start"
    /\ call.n = 1
    /\ n_loaded' = n_loaded + 1
    /\ result' = load_fits(0)
    /\ head' = LoadedHead(0)
    /\ pc' = AfterReturn
    /\ outcome' = IF AfterReturn = "done" THEN "returned" ELSE outcome
    /\ UNCHANGED <<call, n_fixed, window, amplifier, row, buffer,
                   probability, flagged, orig, args, ret, half, list1>>

\* numpy broadcasting of two shapes
Broadcastable(s1, s2) ==
    \A k \in 1..2 : s1[k] = s2[k] \/ s1[k] = 1 \/ s2[k] = 1

BroadcastIndex(shape, rc) ==
    <<IF shape[1] = 1 THEN 0 ELSE rc[1], IF shape[2] = 1 THEN 0 ELSE rc[2]>>

\* bias2 - bias1
AddImagesDifference(bias2, bias1) ==
    LET nr == Max(bias1.shape[1], bias2.shape[1])
        nc == Max(bias1.shape[2], bias2.shape[2])
    IN  IF 0 \in {bias1.shape[1], bias1.shape[2], bias2.shape[1], bias2.shape[2]}
        THEN NoImage
        ELSE Image(nr, nc,
                   [rc \in Pixels(nr, nc) |->
                       RSub(bias2.data[BroadcastIndex(bias2.shape, rc)],
                            bias1.data[BroadcastIndex(bias1.shape, rc)])])

\* bias2 + bias1
AddImages(bias2, bias1) ==
    LET nr == Max(bias1.shape[1], bias2.shape[1])
        nc == Max(bias1.shape[2], bias2.shape[2])
    IN  IF 0 \in {bias1.shape[1], bias1.shape[2], bias2.shape[1], bias2.shape[2]}
        THEN NoImage
        ELSE Image(nr, nc,
                   [rc \in Pixels(nr, nc) |->
                       RAdd(bias2.data[BroadcastIndex(bias2.shape, rc)],
                            bias1.data[BroadcastIndex(bias1.shape, rc)])])

\* len(files) == 2: the straight sum
SumTwo ==
    /\ pc = "start"
    /\ call.n = 2
    /\ n_loaded' = n_loaded + 2
    /\ IF Broadcastable(load_fits(0).shape, load_fits(1).shape)
       THEN /\ result' = AddImages(load_fits(1), load_fits(0))
            /\ n_fixed' = 0
            /\ pc' = "post"
            /\ UNCHANGED <<outcome, head>>
       ELSE /\ Raise("ValueError")
            /\ UNCHANGED n_fixed
    /\ UNCHANGED <<call, window, amplifier, row, buffer, probability,
                   flagged, orig, args, ret, half, list1>>

\* orient 1, 3, 4, 6: orders are vertical
Vertical(h) == (h.e_orient % 8) \in {1, 3, 4, 6}

\* the borders of amplifier a (counted from 1), exchanged when the
\* orders are vertical
Section(h, a) ==
    IF Vertical(h)
    THEN [x_left |-> h.e_ylo[a], x_right |-> h.e_yhi[a],
          y_bottom |-> h.e_xlo[a], y_top |-> h.e_xhi[a],
          gain |-> h.e_gain[a], readnoise |-> h.e_readn[a]]
    ELSE [x_left |-> h.e_xlo[a], x_right |-> h.e_xhi[a],
          y_bottom |-> h.e_ylo[a], y_top |-> h.e_yhi[a],
          gain |-> h.e_gain[a], readnoise |-> h.e_readn[a]]

SectionWidth(h, a) == Section(h, a).x_right - Section(h, a).x_left

\* if window >= n_columns / 2: window = n_columns // 10
ClampWindow(w, n_columns) ==
    IF 2 * w >= n_columns THEN n_columns \div 10 ELSE w

Zeros(n, L) == [f \in 0..(n - 1) |-> [c \in 0..(L - 1) |-> RZero]]

\* the first amplifier from a on that has rows to process; e_ampl + 1 if
\* there is none
RECURSIVE FirstAmplifier(_, _)
FirstAmplifier(h, a) ==
    IF a > h.e_ampl THEN a
    ELSE IF Section(h, a).y_bottom < Section(h, a).y_top THEN a
    ELSE FirstAmplifier(h, a + 1)

\* enter the loop over the rows of amplifier a, or leave the loop over
\* the amplifiers
EnterAmplifier(h, a) ==
    LET b == FirstAmplifier(h, a)
    IN  IF b > h.e_ampl
        THEN /\ pc' = "clip"
             /\ UNCHANGED <<amplifier, row, buffer, probability>>
        ELSE /\ pc' = "load_row"
             /\ amplifier' = b
             /\ row' = Section(h, b).y_bottom
             /\ buffer' = Zeros(call.n, SectionWidth(h, b))
             /\ probability' = Zeros(call.n, SectionWidth(h, b))

\* more than two files: the headers are read, the output is allocated
LoadHeaders ==
    /\ pc = "start"
    /\ call.n >= 3
    /\ n_loaded' = n_loaded + call.n
    /\ IF call.header_only = "header"
       THEN \* _, head = headers[0] on a header: too many values to unpack
            /\ Raise("ValueError")
            /\ UNCHANGED <<n_fixed, window, amplifier, row, buffer, probability>>
       ELSE LET h == Header(0)
            IN  /\ result' = Image(h.naxis2, h.naxis1,
                                   [rc \in Pixels(h.naxis2, h.naxis1) |-> RZero])
                /\ window' = ClampWindow(call.window, h.naxis1)
                /\ EnterAmplifier(h, 1)
                /\ n_fixed' = 0
                /\ UNCHANGED <<outcome, head>>
    /\ UNCHANGED <<call, flagged, orig, args, ret, half, list1>>

\* data[i].data[idx] for the current row: the number of values the slice
\* gives, or -1 when the row index is out of bounds
SliceLength(i) ==
    LET sec == Section(Header(0), amplifier)
        len == IF Vertical(Header(0)) THEN FileRows(i) ELSE FileCols(i)
        oth == IF Vertical(Header(0)) THEN FileCols(i) ELSE FileRows(i)
    IN  IF row >= oth THEN -1
        ELSE Max(Min(sec.x_right, len) - Min(sec.x_left, len), 0)

\* the value read for column c of the buffer
SliceValue(i, c) ==
    LET sec == Section(Header(0), amplifier)
        k   == IF SliceLength(i) = SectionWidth(Header(0), amplifier)
               THEN sec.x_left + c ELSE sec.x_left
    IN  IF Vertical(Header(0)) THEN Scaled(i, k, row) ELSE Scaled(i, row, k)

RowLoads(i) ==
    /\ SliceLength(i) >= 0
    /\ ShapeFits(SliceLength(i), SectionWidth(Header(0), amplifier))

\* buffer[i, :] = data[i].data[idx] * bscale[i] + bzero[i], for every file
LoadRow ==
    /\ pc = "load_row"
    /\ IF \A i \in Files : RowLoads(i)
       THEN /\ buffer' = [i \in Files |->
                             [c \in 0..(SectionWidth(Header(0), amplifier) - 1) |->
                                 SliceValue(i, c)]]
            /\ pc' = "probability"
            /\ UNCHANGED <<outcome, result, head>>
       ELSE /\ LET i == CHOOSE j \in Files :
                            ~RowLoads(j) /\ \A k \in Files : k < j => RowLoads(k)
               IN  Raise(IF SliceLength(i) < 0 THEN "IndexError" ELSE "ValueError")
            /\ UNCHANGED buffer
    /\ UNCHANGED <<call, n_loaded, n_fixed, window, amplifier, row,
                   probability, flagged, orig, args, ret, half, list1>>

\* the probabilities of the row: central columns, then both edges
CalcProbability ==
    /\ pc = "probability"
    /\ LET L == SectionWidth(Header(0), amplifier)
       IN  IF extrapolate_ok(L, window)
           THEN /\ probability' = extrapolate(probability, buffer, window)
                /\ pc' = "fix"
                /\ UNCHANGED <<outcome, result, head>>
           ELSE /\ Raise(IF /\ central_ok(L, window, Max(L - 2 * window, 0))
                            /\ window >= L
                         THEN "IndexError" ELSE "ValueError")
                /\ UNCHANGED probability
    /\ UNCHANGED <<call, n_loaded, n_fixed, window, amplifier, row, buffer,
                   flagged, orig, args, ret, half, list1>>

\* result[idx], n_bad = fix_bad_pixels(...); n_fixed += n_bad; next row
FixBadPixels ==
    /\ pc = "fix"
    /\ \E fix \in {fix_bad_pixels(probability, buffer,
                                   Section(Header(0), amplifier).readnoise,
                                   Section(Header(0), amplifier).gain,
                                   call.threshold)} :
       LET h   == Header(0)
           sec == Section(h, amplifier)
           at(rc) == IF Vertical(h) THEN <<rc[2], rc[1]>> ELSE rc
       IN  /\ result' = [result EXCEPT !.data =
                  [rc \in DOMAIN result.data |->
                      IF /\ at(rc)[1] = row
                         /\ at(rc)[2] >= sec.x_left
                         /\ at(rc)[2] < sec.x_right
                      THEN fix.corrected_signal[at(rc)[2] - sec.x_left]
                      ELSE result.data[rc]]]
           /\ n_fixed' = n_fixed + fix.nbad
           /\ flagged' = flagged \cup
                  {<<f, row, c + sec.x_left>> : <<f, c>> \in
                      {fc \in Files \X (0..(NCols(buffer) - 1)) :
                          fc[1] \in fix.bad[fc[2]]}}
           /\ IF row + 1 < sec.y_top
              THEN /\ row' = row + 1
                   /\ pc' = "load_row"
                   /\ UNCHANGED <<amplifier, buffer, probability>>
              ELSE EnterAmplifier(h, amplifier + 1)
    /\ UNCHANGED <<call, outcome, n_loaded, head, window, orig, args, ret, half, list1>>

\* result = clipnflip(result, head)
ClipNFlip ==
    /\ pc = "clip"
    /\ result' = clipnflip(result, Header(0))
    /\ pc' = "post"
    /\ UNCHANGED <<call, outcome, n_loaded, head, n_fixed, window, amplifier,
                   row, buffer, probability, flagged, orig, args, ret, half, list1>>

RECURSIVE ExpSum(_)
ExpSum(i) == IF i < 0 THEN 0 ELSE ExpTime(i) + ExpSum(i - 1)

\* exp1 + exp2, or the sum over all headers
total_exposure_time == ExpSum(call.n - 1)

\* the read noise values the header is updated from: e_readn of the second
\* header for two files, every e_readn* of the first header otherwise
readnoise_list ==
    IF call.n = 2 THEN <<Header(1).e_readn[1]>> ELSE Header(0).e_readn

\* the header of the file the output header is made from
head_file == IF call.n = 2 THEN 1 ELSE 0

\* the header is updated; the call returns unless the data are not linear
PostProcess ==
    /\ pc = "post"
    /\ IF Header(head_file).e_linear
       THEN /\ head' = [exptime  |-> total_exposure_time,
                        darktime |-> total_exposure_time,
                        nimages  |-> call.n,
                        npixfix  |-> n_fixed,
                        rdnoise  |-> [k \in DOMAIN readnoise_list |->
                                         <<readnoise_list[k], call.n>>],
                        e_input  |-> head_file]
            /\ pc' = AfterReturn
            /\ outcome' = IF AfterReturn = "done" THEN "returned" ELSE outcome
            /\ UNCHANGED result
       ELSE Raise("NotImplementedError")
    /\ UNCHANGED <<call, n_loaded, n_fixed, window, amplifier, row, buffer,
                   probability, flagged, orig, args, ret, half, list1>>

----------------------------------------------------------------------------
(* combine_calibrate: the calibration of the combined image.  The bias     *)
(* and the normalized flat hold one value at every pixel and have the      *)
(* shape of the combined image:                                            *)
(*   bias          "none", "2d" (an image) or "poly" (a stack of           *)
(*                 coefficient images)                                     *)
(*   bias_coeffs   the coefficients, highest degree first ("2d": the       *)
(*                 value of the bias)                                      *)
(*   bhead_exptime exposure time in the header of the bias                 *)
(*   norm, norm_value   "none" or "2d", and the value of the flat          *)
(*   bias_scaling, norm_scaling   the two options                          *)

\* not a number: what a division by zero leaves in the image
RNaN == <<0, 0>>

IsNaN(x) == x[2] = 0

NSub(x, y) == IF IsNaN(x) \/ IsNaN(y) THEN RNaN ELSE RSub(x, y)

NMul(x, y) == IF IsNaN(x) \/ IsNaN(y) THEN RNaN ELSE RMul(x, y)

NDiv(x, y) == IF IsNaN(x) \/ IsNaN(y) \/ y[1] = 0 THEN RNaN ELSE RDiv(x, y)

\* np.ma.mean of an image
ImageMean(img) ==
    LET nr == img.shape[1]
        nc == img.shape[2]
    IN  IF nr * nc = 0 THEN RNaN
        ELSE RDiv(RSum([r \in 0..(nr - 1) |->
                           RSum([c \in 0..(nc - 1) |-> img.data[<<r, c>>]])]),
                  RInt(nr * nc))

\* the value of rank k (from 0) among the pixels of an image
Ranked(img, k) ==
    CHOOSE x \in {img.data[rc] : rc \in DOMAIN img.data} :
        /\ Cardinality({rc \in DOMAIN img.data : RLt(img.data[rc], x)}) <= k
        /\ Cardinality({rc \in DOMAIN img.data : RLe(img.data[rc], x)}) > k

\* np.ma.median of an image
ImageMedian(img) ==
    LET n == Cardinality(DOMAIN img.data)
    IN  IF n = 0 THEN RNaN
        ELSE RDiv(RAdd(Ranked(img, (n - 1) \div 2), Ranked(img, n \div 2)), RInt(2))

RECURSIVE Horner(_, _, _)
Horner(coeffs, k, x) ==
    IF k = 0 THEN RZero
    ELSE RAdd(RMul(Horner(coeffs, k - 1, x), x), RInt(coeffs[k]))

\* np.polyval(bias, x) at one pixel
polyval(coeffs, x) == Horner(coeffs, Len(coeffs), x)

BiasScalings == {"exposure_time", "number_of_files", "mean", "median", "none"}

NormScalings == {"divide", "none"}

\* bias_scaling after the fallback for a bias without exposure time
EffectiveScaling ==
    IF call.bhead_exptime = 0 /\ call.bias_scaling = "exposure_time"
    THEN "number_of_files" ELSE call.bias_scaling

BiasApplies == call.bias # "none" /\ call.bias_scaling # "none"

NormApplies == call.norm # "none" /\ call.norm_scaling # "none"

BiasFails ==
    /\ BiasApplies
    /\ IF call.bias = "2d" THEN EffectiveScaling \notin BiasScalings
       ELSE call.bias_scaling # "exposure_time"

NormFails == NormApplies /\ call.norm_scaling # "divide"

\* what is subtracted from every pixel of img
BiasTerm(img) ==
    LET b == RInt(call.bias_coeffs[Len(call.bias_coeffs)])
    IN  IF call.bias = "poly" THEN polyval(call.bias_coeffs, RInt(head.exptime))
        ELSE IF EffectiveScaling = "exposure_time"
             THEN RDiv(RMul(b, RInt(head.exptime)), RInt(call.bhead_exptime))
        ELSE IF EffectiveScaling = "number_of_files" THEN RMul(b, RInt(call.n))
        ELSE IF EffectiveScaling = "mean"
             THEN NDiv(RMul(b, ImageMean(img)), b)
        ELSE NDiv(RMul(b, ImageMedian(img)), b)

\* the image subtracted from the bias
SubtractBiasReversed(img) ==
    IF BiasApplies
    THEN [img EXCEPT !.data = [rc \in DOMAIN img.data |->
                                  NSub(BiasTerm(img), img.data[rc])]]
    ELSE img

\* orig -= the scaled bias, in place
SubtractBias(img) ==
    IF BiasApplies
    THEN [img EXCEPT !.data = [rc \in DOMAIN img.data |->
                                  NSub(img.data[rc], BiasTerm(img))]]
    ELSE img

RemoveFlat(img) ==
    IF NormApplies
    THEN [img EXCEPT !.data = [rc \in DOMAIN img.data |->
                                  NDiv(img.data[rc], RInt(call.norm_value))]]
    ELSE img

\* the flat is divided out, then the bias is subtracted
CalibrateFlatFirst ==
    /\ pc = "calibrate"
    /\ IF BiasFails \/ NormFails
       THEN /\ Raise("ValueError")
            /\ UNCHANGED orig
       ELSE /\ orig' = SubtractBias(RemoveFlat(result))
            /\ pc' = "done"
            /\ outcome' = "returned"
            /\ UNCHANGED <<result, head>>
    /\ UNCHANGED <<call, n_loaded, n_fixed, window, amplifier, row, buffer,
                   probability, flagged, args, ret, half, list1>>

\* the bias is subtracted, then the flat is divided out
Calibrate ==
    /\ pc = "calibrate"
    /\ IF BiasFails \/ NormFails
       THEN /\ Raise("ValueError")
            /\ UNCHANGED orig
       ELSE /\ orig' = RemoveFlat(SubtractBias(result))
            /\ pc' = "done"
            /\ outcome' = "returned"
            /\ UNCHANGED <<result, head>>
    /\ UNCHANGED <<call, n_loaded, n_fixed, window, amplifier, row, buffer,
                   probability, flagged, args, ret, half, list1>>

----------------------------------------------------------------------------
(* combine_bias.  call.total is the number of files it is given; the two   *)
(* halves of the list are combined by combine_frames, one after the        *)
(* other.  gaussfit and gaussbroad are not translated: the width of the    *)
(* fitted Gaussian and the bins that are found good are any of the values  *)
(* below.                                                                  *)

\* n after the split: a single file is compared with itself
n_bias == IF call.total = 1 THEN 2 ELSE call.total

\* len(list1) and len(list2)
n1 == IF call.total = 1 THEN 1 ELSE call.total \div 2

n2 == IF call.total = 1 THEN 1 ELSE call.total - call.total \div 2

\* the position in files of the first file of list2
first2 == IF call.total = 1 THEN 0 ELSE call.total \div 2

\* the locals of combine_frames before a call
FreshCall ==
    /\ n_fixed' = 0
    /\ window' = call.window
    /\ amplifier' = 0
    /\ row' = 0
    /\ buffer' = NoBuffer
    /\ probability' = NoBuffer
    /\ flagged' = {}

\* n == 0 raises, otherwise combine_frames(list1) is entered
SplitFiles ==
    /\ pc = "bias"
    /\ IF call.total = 0
       THEN /\ Raise("ConfigurationError")
            /\ UNCHANGED <<call, half>>
       ELSE /\ call' = [call EXCEPT !.n = n1, !.first = 0]
            /\ half' = 1
            /\ pc' = "start"
            /\ UNCHANGED <<outcome, result, head>>
    /\ UNCHANGED <<n_loaded, n_fixed, window, amplifier, row, buffer,
                   probability, flagged, orig, args, ret, list1>>

\* img / k
DivideImage(img, k) ==
    [img EXCEPT !.data = [rc \in DOMAIN img.data |->
                             RDiv(img.data[rc], RInt(k))]]

\* bias1 /= n1, then combine_frames(list2) is entered
SecondList ==
    /\ pc = "half"
    /\ half = 1
    /\ list1' = [bias1 |-> DivideImage(result, n1), head1 |-> head]
    /\ call' = [call EXCEPT !.n = n2, !.first = first2]
    /\ half' = 2
    /\ pc' = "start"
    /\ FreshCall
    /\ UNCHANGED <<outcome, n_loaded, head, result, orig, args, ret>>

\* the shape two images are broadcast to; an axis of length 0 stays empty
BroadcastShape(s1, s2) ==
    [k \in 1..2 |-> IF 0 \in {s1[k], s2[k]} THEN 0 ELSE Max(s1[k], s2[k])]

\* (bias1 + bias2) / n
normalized_sum_unweighted(bias1, bias2) ==
    LET sh == BroadcastShape(bias1.shape, bias2.shape)
    IN  Image(sh[1], sh[2],
              [rc \in Pixels(sh[1], sh[2]) |->
                  RDiv(RAdd(bias1.data[BroadcastIndex(bias1.shape, rc)],
                            bias2.data[BroadcastIndex(bias2.shape, rc)]),
                       RInt(n_bias))])

\* (bias1 * n1 + bias2 * n2) / n
normalized_sum(bias1, bias2) ==
    LET sh == BroadcastShape(bias1.shape, bias2.shape)
    IN  Image(sh[1], sh[2],
              [rc \in Pixels(sh[1], sh[2]) |->
                  RDiv(RAdd(RMul(bias1.data[BroadcastIndex(bias1.shape, rc)],
                                 RInt(n1)),
                            RMul(bias2.data[BroadcastIndex(bias2.shape, rc)],
                                 RInt(n2))),
                       RInt(n_bias))])

\* 0.5 * (bias1 - bias2)
half_difference(bias1, bias2) ==
    LET sh == BroadcastShape(bias1.shape, bias2.shape)
    IN  Image(sh[1], sh[2],
              [rc \in Pixels(sh[1], sh[2]) |->
                  RMul(<<1, 2>>,
                       RSub(bias1.data[BroadcastIndex(bias1.shape, rc)],
                            bias2.data[BroadcastIndex(bias2.shape, rc)]))])

\* np.abs(diff)
AbsImage(img) ==
    [img EXCEPT !.data = [rc \in DOMAIN img.data |->
                             <<Abs(img.data[rc][1]), img.data[rc][2]>>]]

\* np.min(diff) != np.max(diff) for an image that is not empty
Varies(diff) ==
    \E p, q \in DOMAIN diff.data : diff.data[p] # diff.data[q]

\* np.clip(2 / n, 0.5, None)
bin_size == IF n_bias <= 4 THEN Rat(2, n_bias) ELSE <<1, 2>>

\* int((hmax - hmin) / bin_size)
nbins(crude) ==
    LET q == RDiv(RMul(RInt(10), crude), bin_size)
    IN  q[1] \div q[2]

\* hmin + bin_size * (np.arange(0.0, nbins) + 0.5)
xh(crude) ==
    [k \in 0..(nbins(crude) - 1) |->
        RAdd(RMul(RInt(-5), crude), RMul(bin_size, <<2 * k + 1, 2>>))]

\* abs(par[2]): the widths gaussfit may return
Sigmas == {<<1, 2>>, <<1, 1>>}

\* the pixels with diff <= gmin or diff >= gmax
ibad(diff, gmin, gmax) ==
    {rc \in DOMAIN diff.data :
        RLe(diff.data[rc], gmin) \/ RLe(gmax, diff.data[rc])}

\* bias[ibad] = np.clip(bias1[ibad], bias2[ibad], None)
fix_bias_lower_bound(bias, bad, bias1, bias2) ==
    [bias EXCEPT !.data =
        [rc \in DOMAIN bias.data |->
            IF rc \in bad
            THEN (IF RLe(bias1.data[rc], bias2.data[rc])
                  THEN bias2.data[rc] ELSE bias1.data[rc])
            ELSE bias.data[rc]]]

\* bias[ibad] = np.clip(bias1[ibad], None, bias2[ibad])
fix_bias(bias, bad, bias1, bias2) ==
    [bias EXCEPT !.data =
        [rc \in DOMAIN bias.data |->
            IF rc \in bad
            THEN (IF RLe(bias1.data[rc], bias2.data[rc])
                  THEN bias1.data[rc] ELSE bias2.data[rc])
            ELSE bias.data[rc]]]

\* the ends of the runs of good bins lie among the first and the last
\* MaxEnds bins
MaxEnds == 2

\* igood = np.where(smcontam < 3 * consig): the sets of bins that may lie
\* below the limit are no bin at all, a run of bins, and a run of bins
\* whose second bin is left out
GoodBins(bins) ==
    LET ends == {k \in bins : k < MaxEnds \/ k >= Cardinality(bins) - MaxEnds}
    IN  {{}} \cup
        UNION {{lo..hi, (lo..hi) \ ((lo + 1)..Min(lo + 1, hi - 1))} :
                  lo \in ends, hi \in ends}

\* gmin = np.min(xh[igood]), gmax = np.max(xh[igood])
good_range_ends_swapped(x, igood) ==
    [gmin |-> x[CHOOSE k \in igood : \A j \in igood : j <= k],
     gmax |-> x[CHOOSE k \in igood : \A j \in igood : k <= j]]

good_range(x, igood) ==
    [gmin |-> x[CHOOSE k \in igood : \A j \in igood : k <= j],
     gmax |-> x[CHOOSE k \in igood : \A j \in igood : j <= k]]

\* the header is completed and bias, head are returned; ret keeps the
\* locals of combine_bias
ReturnBias(bias, nbad, biasnoise, locals) ==
    /\ result' = bias
    /\ head' = [exptime  |-> Rat(list1.head1.exptime + head.exptime, n_bias),
                darktime |-> head.darktime,
                nimages  |-> n_bias,
                npixfix  |-> nbad,
                rdnoise  |-> head.rdnoise,
                e_input  |-> head.e_input,
                bgnoise  |-> biasnoise]
    /\ ret' = locals
    /\ pc' = "done"
    /\ outcome' = "returned"

\* an error of the second part of combine_bias
RaiseBias(error) ==
    /\ Raise(error)
    /\ ret' = ret

\* biasnoise = noise
FixAndReturn_noise_in_counts(bias, bad, bias1, bias2, fit) ==
    IF bad \subseteq (DOMAIN bias1.data \cap DOMAIN bias2.data)
    THEN ReturnBias(fix_bias(bias, bad, bias1, bias2), Cardinality(bad),
                    fit.noise, fit)
    ELSE RaiseBias("IndexError")

\* the pixels in bad are replaced, and the noise is scaled by the gain
FixAndReturn(bias, bad, bias1, bias2, fit) ==
    IF bad \subseteq (DOMAIN bias1.data \cap DOMAIN bias2.data)
    THEN ReturnBias(fix_bias(bias, bad, bias1, bias2), Cardinality(bad),
                    RMul(Header(head_file).e_gain[1], fit.noise),
                    fit)
    ELSE RaiseBias("IndexError")

\* the fit of the histogram with bin centres x, and the bad pixels
FitAndFix(bias, diff, bias1, bias2, x) ==
    \E noise \in Sigmas, igood \in GoodBins(DOMAIN x) :
        IF igood = {}
        THEN RaiseBias("ValueError")
        ELSE FixAndReturn(bias,
                          ibad(diff, good_range(x, igood).gmin,
                               good_range(x, igood).gmax),
                          bias1, bias2,
                          [fitted |-> TRUE, noise |-> noise, xh |-> x,
                           igood |-> igood,
                           gmin |-> good_range(x, igood).gmin,
                           gmax |-> good_range(x, igood).gmax])

\* the noise of the difference image and the bad pixels
EstimateNoise(bias, diff, bias1, bias2, crude) ==
    IF nbins(crude) = 0
    THEN RaiseBias("ValueError")
    ELSE FitAndFix(bias, diff, bias1, bias2, xh(crude))

\* bias2 /= n2 and the rest of combine_bias
NoiseAndBadPixels ==
    /\ pc = "half"
    /\ half = 2
    /\ LET bias1 == list1.bias1
           bias2 == DivideImage(result, n2)
       IN  IF ~Broadcastable(bias1.shape, bias2.shape)
              \/ 0 \in {bias1.shape[1], bias1.shape[2],
                        bias2.shape[1], bias2.shape[2]}
           THEN RaiseBias("ValueError")
           ELSE IF Varies(half_difference(bias1, bias2))
           THEN EstimateNoise(normalized_sum(bias1, bias2),
                              half_difference(bias1, bias2), bias1, bias2,
                              ImageMedian(AbsImage(half_difference(bias1, bias2))))
           ELSE ReturnBias(normalized_sum(bias1, bias2), 0, RInt(1),
                           [fitted |-> FALSE])
    /\ UNCHANGED <<call, n_loaded, n_fixed, window, amplifier, row, buffer,
                   probability, flagged, orig, args, half, list1>>

----------------------------------------------------------------------------
(* The calls that are explored.                                            *)

MaxFiles == 4

MaxRows == 3

MaxCols == 5

MaxLevel == 2

\* the value of a cosmic ray hit
HitValue == 50

\* default of the window argument of combine_frames
DefaultWindow == 50

BaseCall ==
    [entry |-> "combine_frames", n |-> 3, rows |-> 1, cols |-> 3,
     odd |-> -1, drow |-> 0, dcol |-> 0,
     level |-> 1, ramp |-> 0,
     hitf |-> -1, hitr |-> 0, hitc |-> 0, hitv |-> HitValue,
     bscale |-> 1, bzero |-> 0,
     orient |-> 0, prescan_x |-> 0, overscan_x |-> 0,
     prescan_y |-> 0, overscan_y |-> 0,
     gain |-> 1, readn |-> 0, linear |-> TRUE,
     ampl |-> 1, split |-> 0, readn2 |-> 0, first |-> 0, total |-> 0,
     window |-> 1, threshold |-> <<7, 2>>, header_only |-> "pair",
     bias |-> "none", bias_coeffs |-> <<0>>, bhead_exptime |-> 1,
     norm |-> "none", norm_value |-> 1,
     bias_scaling |-> "exposure_time", norm_scaling |-> "divide"]

Shapes == (1..MaxRows) \X (3..MaxCols)

\* <<bscale, bzero>>
Rescales == {<<1, 0>>, <<2, -3>>}

\* <<hitf, hitc>>: no hit, or a hit in file 1 at row 0
Hits == {x \in {-1, 1} \X (0..(MaxCols - 1)) : x[1] = -1 => x[2] = 0}

\* <<threshold, readn>>
Cuts == {<<(<<7, 2>>), 1>>, <<(<<7, 2>>), 0>>, <<RZero, 0>>}

\* three or more files of one geometry, a window that fits
CallsMany ==
    {[BaseCall EXCEPT !.n = n, !.rows = sh[1], !.cols = sh[2],
                      !.level = lv, !.ramp = rp, !.hitf = ht[1], !.hitc = ht[2],
                      !.bscale = rs[1], !.bzero = rs[2],
                      !.threshold = ct[1], !.readn = ct[2]] :
        n \in 3..MaxFiles, sh \in Shapes, lv \in 0..MaxLevel, rp \in {0, 1},
        ht \in Hits, rs \in Rescales, ct \in Cuts}

\* the same with vertical orders, a prescan or an overscan
CallsOriented ==
    {[BaseCall EXCEPT !.n = n, !.rows = sh[1], !.cols = sh[2],
                      !.hitf = ht[1], !.hitc = ht[2], !.orient = o,
                      !.prescan_x = ps[1], !.overscan_y = ps[2]] :
        n \in 3..MaxFiles, sh \in Shapes, ht \in Hits, o \in {0, 1},
        ps \in {<<0, 0>>, <<1, 0>>, <<0, 1>>}}

\* at most two files
CallsFew ==
    {[BaseCall EXCEPT !.n = n, !.rows = sh[1], !.cols = sh[2],
                      !.level = lv, !.ramp = rp, !.hitf = ht[1], !.hitc = ht[2],
                      !.bscale = rs[1], !.bzero = rs[2], !.prescan_x = px] :
        n \in 0..2, sh \in Shapes, lv \in 0..MaxLevel, rp \in {0, 1},
        ht \in Hits, rs \in Rescales, px \in {0, 1}}

\* other windows: one of two columns, and the default
CallsWide ==
    {[BaseCall EXCEPT !.n = n, !.rows = sh[1], !.cols = sh[2], !.orient = o,
                      !.window = w] :
        n \in 3..MaxFiles, sh \in Shapes, o \in {0, 1}, w \in {2, DefaultWindow}}

\* one file of another size than the others
CallsOdd ==
    {[BaseCall EXCEPT !.n = n, !.rows = sh[1], !.cols = sh[2], !.orient = o,
                      !.prescan_x = px, !.odd = od, !.drow = d[1], !.dcol = d[2]] :
        n \in 2..MaxFiles, sh \in Shapes, o \in {0, 1}, px \in {0, 1},
        od \in 0..(MaxFiles - 1), d \in {<<1, 0>>, <<0, 1>>, <<-1, 0>>, <<0, -1>>}}

\* data that need the non-linearity correction
CallsNonLinear ==
    {[BaseCall EXCEPT !.n = n, !.rows = sh[1], !.cols = sh[2], !.linear = FALSE] :
        n \in 0..MaxFiles, sh \in Shapes}

\* two amplifier sections, side by side
CallsAmplifiers ==
    {[BaseCall EXCEPT !.n = n, !.rows = sh[1], !.cols = sh[2], !.orient = o,
                      !.hitf = hf, !.hitc = sh[2] - 1,
                      !.ampl = 2, !.split = sh[2] \div 2,
                      !.readn = 1, !.readn2 = 2] :
        n \in 1..MaxFiles, sh \in {<<1, 6>>, <<MaxRows, 4>>}, o \in {0, 1},
        hf \in {-1, 0}}

\* the load_fits of Instrument, which returns the header alone
CallsHeaderOnly ==
    {[BaseCall EXCEPT !.n = n, !.rows = sh[1], !.cols = sh[2],
                      !.header_only = "header"] :
        n \in 0..MaxFiles, sh \in Shapes}

ValidCall(cl) ==
    /\ cl.hitc < cl.cols
    /\ cl.hitf < cl.n
    /\ cl.odd < cl.n
    /\ cl.odd >= 0 => cl.rows + cl.drow >= 1

Calls == {cl \in CallsMany \cup CallsOriented \cup CallsFew \cup CallsWide
                 \cup CallsOdd \cup CallsNonLinear \cup CallsAmplifiers
                 \cup CallsHeaderOnly :
             ValidCall(cl)}

NoArgs == [arr |-> NoBuffer, size |-> 0, method |-> "sum"]

\* nothing kept of a first half
NoList == [bias1 |-> NoImage, head1 |-> NoHead]

InitCall(cl) ==
    /\ call = cl
    /\ pc = IF cl.entry = "combine_bias" THEN "bias" ELSE "start"
    /\ outcome = "none"
    /\ n_loaded = 0
    /\ head = NoHead
    /\ result = NoImage
    /\ n_fixed = 0
    /\ window = cl.window
    /\ amplifier = 0
    /\ row = 0
    /\ buffer = NoBuffer
    /\ probability = NoBuffer
    /\ flagged = {}
    /\ orig = NoImage
    /\ args = NoArgs
    /\ ret = NoBuffer
    /\ half = 0
    /\ list1 = NoList

Init == \E cl \in Calls : InitCall(cl)

Next ==
    \/ RaiseNoFiles
    \/ ReturnSingle
    \/ SumTwo
    \/ LoadHeaders
    \/ LoadRow
    \/ CalcProbability
    \/ FixBadPixels
    \/ ClipNFlip
    \/ PostProcess

Spec == Init /\ [][Next]_vars

----------------------------------------------------------------------------
(* combine_calibrate on one geometry, with and without a bias and a flat.  *)

\* <<bias, bias_coeffs>>
Biases == {<<"none", <<0>> >>, <<"2d", <<0>> >>, <<"2d", <<1>> >>,
           <<"poly", <<0, 0>> >>, <<"poly", <<1, 2>> >>}

\* <<norm, norm_value>>
Flats == {<<"none", 1>>, <<"2d", 1>>, <<"2d", 2>>}

CallsCal ==
    {[BaseCall EXCEPT !.entry = "combine_calibrate", !.n = n, !.level = lv,
                      !.linear = ln,
                      !.bias = bi[1], !.bias_coeffs = bi[2], !.bhead_exptime = be,
                      !.norm = fl[1], !.norm_value = fl[2],
                      !.bias_scaling = bs, !.norm_scaling = ns] :
        n \in 0..MaxFiles, lv \in 0..MaxLevel, ln \in BOOLEAN, bi \in Biases,
        be \in {0, 2}, fl \in Flats,
        bs \in BiasScalings \cup {"other"}, ns \in NormScalings \cup {"other"}}

InitCal == \E cl \in CallsCal : InitCall(cl)

NextCal ==
    \/ RaiseNoFiles
    \/ ReturnSingle
    \/ SumTwo
    \/ LoadHeaders
    \/ LoadRow
    \/ CalcProbability
    \/ FixBadPixels
    \/ ClipNFlip
    \/ PostProcess
    \/ Calibrate

SpecCal == InitCal /\ [][NextCal]_vars

----------------------------------------------------------------------------
(* One cosmic ray hit: five frames of uniform value 100, one pixel of one  *)
(* frame at 10000, threshold 3.5, read noise 5, gain 1, the default        *)
(* window, one row of CRCols columns.                                      *)

CRCols == 160

\* the columns of the hit that are explored
CRHitCols == {50, 55, 60, 65, 70, 75, 80, 84}

CallsCR ==
    {[BaseCall EXCEPT !.n = 5, !.rows = 1, !.cols = CRCols, !.level = 100,
                      !.hitf = f, !.hitc = c, !.hitv = 10000,
                      !.readn = 5, !.gain = 1, !.threshold = <<7, 2>>,
                      !.window = DefaultWindow] :
        f \in 0..4, c \in CRHitCols}

InitCR == \E cl \in CallsCR : InitCall(cl)

NextCR ==
    \/ LoadHeaders
    \/ LoadRow
    \/ CalcProbability
    \/ FixBadPixels
    \/ ClipNFlip
    \/ PostProcess

SpecCR == InitCR /\ [][NextCR]_vars

----------------------------------------------------------------------------
(* running_sum and calculate_probability called on their own.              *)

MaxLen == 4

MaxValue == 2

\* rows of up to MaxLen values between -1 and MaxValue
RowsOfLength(L) == [0..(L - 1) -> {RInt(v) : v \in -1..MaxValue}]

Reversed(r) == [i \in DOMAIN r |-> r[Width(r) - 1 - i]]

\* running_sum is called on two rows (a row and its mirror image) with a
\* size of at most their length
ArgsSum ==
    {[arr |-> [f \in 0..1 |-> IF f = 0 THEN r ELSE Reversed(r)],
      size |-> sz, method |-> "sum"] :
        r \in UNION {RowsOfLength(L) : L \in 1..MaxLen}, sz \in 1..MaxLen}

CallRunningSum ==
    /\ pc = "start"
    /\ args.size <= NCols(args.arr)
    /\ ret' = running_sum(args.arr, args.size)
    /\ pc' = "done"
    /\ outcome' = "returned"
    /\ UNCHANGED <<call, n_loaded, head, result, n_fixed, window, amplifier,
                   row, buffer, probability, flagged, orig, args, half, list1>>

InitSum ==
    /\ call = BaseCall /\ pc = "start" /\ outcome = "none" /\ n_loaded = 0
    /\ head = NoHead /\ result = NoImage /\ n_fixed = 0 /\ window = 0
    /\ amplifier = 0 /\ row = 0 /\ buffer = NoBuffer /\ probability = NoBuffer
    /\ flagged = {} /\ orig = NoImage /\ ret = NoBuffer
    /\ half = 0 /\ list1 = NoList
    /\ args \in {a \in ArgsSum : a.size <= NCols(a.arr)}

NextSum == CallRunningSum

SpecSum == InitSum /\ [][NextSum]_vars

\* the rows calculate_probability is called on
ProbRows(L) ==
    {[c \in 0..(L - 1) |-> RInt(v[c + 1])] :
        v \in {<<0, 0, 0, 0, 0, 0>>, <<1, 1, 1, 1, 1, 1>>, <<1, 2, 0, 1, 2, 0>>,
               <<2, 0, 1, 1, 0, 2>>, <<-1, 1, 0, -1, 0, 1>>, <<0, 2, 2, 0, 1, 1>>}}

MaxFrames == 3

\* stacks of two to MaxFrames rows, a window of which the rows hold
\* 2 * window + 1 values at least
ArgsProb ==
    {a \in [arr : UNION {[0..(n - 1) -> ProbRows(L)] :
                            n \in 2..MaxFrames, L \in 3..(MaxLen + 1)},
            size : 1..2, method : Methods] :
        2 * a.size + 1 <= NCols(a.arr)}

CallCalculateProbability ==
    /\ pc = "start"
    /\ ret' = calculate_probability(args.arr, args.size, args.method)
    /\ pc' = "done"
    /\ outcome' = "returned"
    /\ UNCHANGED <<call, n_loaded, head, result, n_fixed, window, amplifier,
                   row, buffer, probability, flagged, orig, args, half, list1>>

InitProb ==
    /\ call = BaseCall /\ pc = "start" /\ outcome = "none" /\ n_loaded = 0
    /\ head = NoHead /\ result = NoImage /\ n_fixed = 0 /\ window = 0
    /\ amplifier = 0 /\ row = 0 /\ buffer = NoBuffer /\ probability = NoBuffer
    /\ flagged = {} /\ orig = NoImage /\ ret = NoBuffer
    /\ half = 0 /\ list1 = NoList
    /\ args \in ArgsProb

NextProb == CallCalculateProbability

SpecProb == InitProb /\ [][NextProb]_vars

----------------------------------------------------------------------------
(* combine_bias on lists of up to MaxBiasFiles files.                      *)

MaxBiasFiles == 6

\* <<rows, cols, odd, drow>>: one geometry, or a second file with one row
\* more than the first
BiasShapes == {<<1, 4, -1, 0>>, <<2, 4, -1, 0>>, <<1, 4, 1, 1>>}

\* <<hitf, hitr, hitc>>
BiasHits(n) == {<<-1, 0, 0>>} \cup {<<f, 0, 1>> : f \in 0..(n - 1)}

CallsBiasOf(n) ==
    {[BaseCall EXCEPT !.entry = "combine_bias", !.total = n, !.n = n,
                      !.rows = sh[1], !.cols = sh[2],
                      !.odd = sh[3], !.drow = sh[4],
                      !.ramp = rp, !.gain = g,
                      !.hitf = hit[1], !.hitr = hit[2], !.hitc = hit[3]] :
        sh \in BiasShapes, rp \in 0..1, g \in 1..2, hit \in BiasHits(n)}

CallsBias == UNION {CallsBiasOf(n) : n \in 0..MaxBiasFiles}

InitBias == \E cl \in CallsBias : InitCall(cl)

NextBias ==
    \/ SplitFiles
    \/ ReturnSingle
    \/ SumTwo
    \/ LoadHeaders
    \/ LoadRow
    \/ CalcProbability
    \/ FixBadPixels
    \/ ClipNFlip
    \/ PostProcess
    \/ SecondList
    \/ NoiseAndBadPixels

SpecBias == InitBias /\ [][NextBias]_vars

----------------------------------------------------------------------------
(* Reducer.run_steps and main.  args holds the arguments:                  *)
(*   entry   "main" or "run_steps"                                         *)
(*   source  where the Reducer is defined: "reduce.py" (the one main       *)
(*           makes) or "reducer.py"                                        *)
(*   all, steps   steps == "all", or the list of steps                     *)
(*   skip_existing                                                         *)
(*   sets    the number of file sets sort_files finds                      *)
(*   exists  whether the output of every science file exists already      *)
(* and ret holds the output of main, the number of file sets taken, the    *)
(* data of the Reducer, the steps still to run and the modules of which    *)
(* run or load was invoked.  The steps are those of StepNames.             *)

StepNames == {"mask", "bias", "finalize"}

\* the keys of Reducer.step_order in reducer.py and their values; the
\* Reducer of reduce.py has the same entries without "mask"
OrderedSteps ==
    <<"mask", "bias", "flat", "orders", "curvature", "scatter", "norm_flat",
      "wavecal_master", "wavecal_init", "wavecal", "freq_comb_master",
      "freq_comb", "rectify", "science", "continuum", "finalize">>

OrderValues == <<5, 10, 20, 30, 40, 45, 50, 60, 64, 67, 70, 72, 75, 80, 90, 100>>

\* list(self.step_order.keys())
AllSteps(source) ==
    IF source = "reduce.py" THEN Tail(OrderedSteps) ELSE OrderedSteps

StepsOf(seq) == {seq[i] : i \in DOMAIN seq}

\* step_order of the Reducer
step_order(source) ==
    [s \in StepsOf(AllSteps(source)) |->
        OrderValues[CHOOSE i \in DOMAIN OrderedSteps : OrderedSteps[i] = s]]

\* steps.sort(key=lambda x: self.step_order[x]): a stable sort
RECURSIVE SortSteps(_, _)
SortSteps(source, steps) ==
    IF steps = << >> THEN << >>
    ELSE LET rest == SortSteps(source, Tail(steps))
             k == Cardinality({i \in DOMAIN rest :
                                  step_order(source)[rest[i]]
                                  < step_order(source)[Head(steps)]})
         IN  SubSeq(rest, 1, k) \o <<Head(steps)>> \o SubSeq(rest, k + 1, Len(rest))

\* self.data = {"files": files, "config": config} without the files
InitialDataNoFiles == ("config" :> "config")

\* self.data = {"files": files, "config": config}
InitialData == ("files" :> "classified_files") @@ ("config" :> "config")

\* what the constructors of the step add to the run dependencies
declared_depends_on(step) ==
    CASE step = "mask" -> {}
      [] step = "bias" -> {"mask"}
      [] step \in {"flat", "orders"} -> {"mask", "bias"}
      [] step \in {"curvature", "scatter"} -> {"mask", "bias", "orders"}
      [] step = "norm_flat" -> {"flat", "orders", "scatter", "curvature"}
      [] step \in {"wavecal_master", "freq_comb_master"} ->
            {"mask", "bias", "orders", "norm_flat", "curvature"}
      [] step = "wavecal_init" -> {"wavecal_master"}
      [] step = "wavecal" -> {"wavecal_master", "wavecal_init"}
      [] step = "freq_comb" -> {"freq_comb_master", "wavecal"}
      [] step = "rectify" -> {"files", "orders", "curvature", "mask", "freq_comb"}
      [] step = "science" ->
            {"mask", "bias", "orders", "norm_flat", "curvature", "scatter"}
      [] step = "continuum" -> {"science", "freq_comb", "norm_flat"}
      [] step = "finalize" -> {"continuum", "freq_comb", "config"}

\* the steps whose constructors write to self._dependsOn or
\* self._loadDependsOn, which no Step has: all but Mask,
\* WavelengthCalibrationFinalize and Finalize
ConstructorFails(step) == step \notin {"mask", "wavecal", "finalize"}

\* depends_on of the modules that can be constructed
depends_on(step) == declared_depends_on(step)

\* run_module(step): "run" when module.run is reached, or the exception.
\* The Reducer of reduce.py reads module.dependsOn, which no Step has.
run_module(source, step, data) ==
    IF ConstructorFails(step) THEN "AttributeError"
    ELSE IF source = "reduce.py" THEN "AttributeError"
    ELSE IF \E d \in depends_on(step) \ DOMAIN data : ConstructorFails(d)
    THEN "AttributeError"
    ELSE "run"

NoReducer ==
    [output |-> << >>, nset |-> 0, data |-> << >>, steps |-> << >>,
     invoked |-> {}]

Untouched ==
    UNCHANGED <<call, n_loaded, head, result, n_fixed, window, amplifier,
                row, buffer, probability, flagged, orig, args, half, list1>>

\* main: the next file set gets its Reducer, or the output is returned
NewReducer ==
    /\ pc = "main"
    /\ IF ret.nset < args.sets
       THEN /\ ret' = [ret EXCEPT !.nset = @ + 1, !.data = InitialData,
                                  !.steps = << >>]
            /\ pc' = "run_steps"
            /\ UNCHANGED outcome
       ELSE /\ pc' = "done"
            /\ outcome' = "returned"
            /\ UNCHANGED ret
    /\ Untouched

\* run_steps returns data: to the caller, or to main, which appends it
ReturnFromRunSteps(data) ==
    IF args.entry = "main"
    THEN /\ ret' = [ret EXCEPT !.output = Append(@, data)]
         /\ pc' = "main"
         /\ UNCHANGED outcome
    ELSE /\ ret' = [ret EXCEPT !.output = <<data>>]
         /\ pc' = "done"
         /\ outcome' = "returned"

\* run_steps up to the loop over the steps
RunSteps ==
    /\ pc = "run_steps"
    /\ LET steps == IF args.all THEN AllSteps(args.source) ELSE args.steps
       IN  IF args.skip_existing /\ "finalize" \in StepsOf(steps) /\ args.exists
           THEN ReturnFromRunSteps(("finalize" :> "existing"))
           ELSE IF StepsOf(steps) \subseteq DOMAIN step_order(args.source)
           THEN /\ ret' = [ret EXCEPT !.steps = SortSteps(args.source, steps)]
                /\ pc' = "run_module"
                /\ UNCHANGED outcome
           ELSE /\ pc' = "done"
                /\ outcome' = "KeyError"
                /\ UNCHANGED ret
    /\ Untouched

\* self.run_module(step) for the next step
RunModule ==
    /\ pc = "run_module"
    /\ ret.steps # << >>
    /\ IF run_module(args.source, Head(ret.steps), ret.data) = "run"
       THEN /\ ret' = [ret EXCEPT
                          !.data = (Head(ret.steps) :> "data") @@ @,
                          !.invoked = @ \cup {<<Head(ret.steps), "run">>},
                          !.steps = Tail(@)]
            /\ UNCHANGED <<pc, outcome>>
       ELSE /\ pc' = "done"
            /\ outcome' = run_module(args.source, Head(ret.steps), ret.data)
            /\ UNCHANGED ret
    /\ Untouched

\* return self.data
ReturnData ==
    /\ pc = "run_module"
    /\ ret.steps = << >>
    /\ ReturnFromRunSteps(ret.data)
    /\ Untouched

MaxSets == 2

\* the lists of distinct steps
StepLists ==
    {s \in UNION {[1..k -> StepNames] : k \in 0..3} :
        \A i, j \in DOMAIN s : i # j => s[i] # s[j]}

ArgsSteps ==
    {[entry |-> e[1], source |-> e[2], all |-> a, steps |-> s,
      skip_existing |-> sk, sets |-> n, exists |-> ex] :
        e \in {<<"main", "reduce.py">>, <<"run_steps", "reduce.py">>,
               <<"run_steps", "reducer.py">>},
        a \in BOOLEAN, s \in StepLists, sk \in BOOLEAN, n \in 0..MaxSets,
        ex \in BOOLEAN}

InitSteps ==
    /\ call = BaseCall /\ outcome = "none" /\ n_loaded = 0
    /\ head = NoHead /\ result = NoImage /\ n_fixed = 0 /\ window = 0
    /\ amplifier = 0 /\ row = 0 /\ buffer = NoBuffer /\ probability = NoBuffer
    /\ flagged = {} /\ orig = NoImage
    /\ half = 0 /\ list1 = NoList
    /\ args \in {a \in ArgsSteps :
                    /\ a.all => a.steps = << >>
                    /\ a.entry = "run_steps" => a.sets = 1}
    /\ pc = IF args.entry = "main" THEN "main" ELSE "run_steps"
    /\ ret = IF args.entry = "main" THEN NoReducer
             ELSE [NoReducer EXCEPT !.nset = 1, !.data = InitialData]

NextSteps ==
    \/ NewReducer
    \/ RunSteps
    \/ RunModule
    \/ ReturnData

SpecSteps == InitSteps /\ [][NextSteps]_vars

----------------------------------------------------------------------------
(* fix_bad_pixels called on its own, on stacks of three to MaxFrames rows  *)
(* of one or two columns.                                                  *)

\* the probabilities of one column: equal, none in the first frame, none
\* at all, rising, and a negative one (from a negative frame)
ProbabilityColumns(N) ==
    {[f \in 0..(N - 1) |-> Rat(1, N)],
     [f \in 0..(N - 1) |-> IF f = 0 THEN RZero ELSE Rat(1, N - 1)],
     [f \in 0..(N - 1) |-> RZero],
     [f \in 0..(N - 1) |-> Rat(2 * (f + 1), N * (N + 1))],
     [f \in 0..(N - 1) |-> IF f = 0 THEN RInt(-1) ELSE Rat(2, N - 1)]}

\* the values of one column: equal, rising, and one frame hit or dead
BufferColumns(N) ==
    {[f \in 0..(N - 1) |-> RInt(v)] : v \in {-2, 0, 1}}
    \cup {[f \in 0..(N - 1) |-> RInt(f + 1)]}
    \cup {[f \in 0..(N - 1) |-> RInt(IF f = k THEN HitValue ELSE 1)] :
             k \in 0..(N - 1)}
    \cup {[f \in 0..(N - 1) |-> RInt(IF f = 0 THEN -HitValue ELSE 1)]}

\* <<probabilities, values>> of the second column
SecondColumns(N) ==
    {<<[f \in 0..(N - 1) |-> Rat(1, N)],
       [f \in 0..(N - 1) |-> RInt(IF f = 1 THEN HitValue ELSE 1)]>>,
     <<[f \in 0..(N - 1) |-> Rat(1, N)], [f \in 0..(N - 1) |-> RInt(1)]>>}

\* the stack of rows made of the columns cols
Stack(cols, N, k) ==
    [f \in 0..(N - 1) |-> [c \in 0..(Len(cols) - 1) |-> cols[c + 1][k][f]]]

ColumnLists(N) ==
    {<<(<<p, b>>)>> : p \in ProbabilityColumns(N), b \in BufferColumns(N)}
    \cup {<<(<<p, b>>), s>> : p \in ProbabilityColumns(N),
                             b \in BufferColumns(N), s \in SecondColumns(N)}

ArgsFix ==
    UNION {{[probability |-> Stack(cols, N, 1), buffer |-> Stack(cols, N, 2),
             readnoise |-> RInt(rn), gain |-> RInt(g), threshold |-> th] :
               cols \in ColumnLists(N), rn \in 0..1, g \in 1..2,
               th \in {<<7, 2>>, RZero, RInt(-1)}} : N \in 3..MaxFrames}

CallFixBadPixels ==
    /\ pc = "start"
    /\ ret' = fix_bad_pixels(args.probability, args.buffer, args.readnoise,
                             args.gain, args.threshold)
    /\ pc' = "done"
    /\ outcome' = "returned"
    /\ UNCHANGED <<call, n_loaded, head, result, n_fixed, window, amplifier,
                   row, buffer, probability, flagged, orig, args, half, list1>>

InitFix ==
    /\ call = BaseCall /\ pc = "start" /\ outcome = "none" /\ n_loaded = 0
    /\ head = NoHead /\ result = NoImage /\ n_fixed = 0 /\ window = 0
    /\ amplifier = 0 /\ row = 0 /\ buffer = NoBuffer /\ probability = NoBuffer
    /\ flagged = {} /\ orig = NoImage /\ ret = NoBuffer
    /\ half = 0 /\ list1 = NoList
    /\ args \in ArgsFix

NextFix == CallFixBadPixels

SpecFix == InitFix /\ [][NextFix]_vars

----------------------------------------------------------------------------
(* Properties of combine_frames (Spec).                                    *)

Returned == pc = "done" /\ outcome = "returned"

\* all files have the rows and columns of the first
SameGeometry ==
    \A i \in Files : FileRows(i) = FileRows(0) /\ FileCols(i) = FileCols(0)

\* the shape of a loaded frame: the image without prescan and overscan
ClippedShape ==
    <<call.rows - call.prescan_y - call.overscan_y,
      call.cols - call.prescan_x - call.overscan_x>>

\* the rescaled value of file i at pixel rc of the clipped frame
LoadedValue(i, rc) ==
    Stored(i, rc[1] + call.prescan_y, rc[2] + call.prescan_x) * call.bscale
        + call.bzero

\* C1: with two files of equal shape the result holds, at every pixel, the
\* sum of the two loaded values; nothing is flagged and the recorded number
\* of fixed pixels is 0
TwoFrameSum ==
    (call.n = 2 /\ SameGeometry /\ (pc = "post" \/ Returned)) =>
        /\ result.shape = ClippedShape
        /\ \A rc \in DOMAIN result.data :
              result.data[rc] = RInt(LoadedValue(0, rc) + LoadedValue(1, rc))
        /\ n_fixed = 0
        /\ flagged = {}
        /\ Returned => head.npixfix = 0

TwoFrameSumReturned ==
    /\ Returned
    /\ call.n = 2
    /\ SameGeometry
    /\ call.hitf = 1
    /\ call.ramp = 1
    /\ call.prescan_x = 0
    /\ result.data[<<0, call.hitc>>] = RInt(LoadedValue(0, <<0, 0>>) +
                                            call.hitv * call.bscale + call.bzero)
    /\ head.npixfix = 0

\* C2: with one file the result is the loaded frame, pixel by pixel; no
\* row buffer or probability is computed and nothing is flagged or counted
SinglePassThrough ==
    (call.n = 1 /\ Returned) =>
        /\ result.shape = ClippedShape
        /\ \A rc \in DOMAIN result.data :
              result.data[rc] = RInt(LoadedValue(0, rc))
        /\ buffer = NoBuffer
        /\ probability = NoBuffer
        /\ flagged = {}
        /\ n_fixed = 0
        /\ head = LoadedHead(0)

SinglePassThroughReturned ==
    /\ Returned
    /\ call.n = 1
    /\ call.prescan_x = 1
    /\ call.bscale = 2
    /\ call.level = 2
    /\ result.data[<<0, 0>>] = RInt(1)

\* the files hold one value at every pixel, the same in every file
IdenticalFrames == SameGeometry /\ call.ramp = 0 /\ call.hitf = -1

\* C3: three or more identical frames of value v combine to N * v at every
\* pixel, edge columns included, and no pixel is flagged or counted
IdenticalFramesSum ==
    (call.n >= 3 /\ IdenticalFrames /\ Returned) =>
        /\ result.shape = ClippedShape
        /\ \A rc \in DOMAIN result.data :
              result.data[rc] = RInt(call.n * (call.level * call.bscale + call.bzero))
        /\ flagged = {}
        /\ head.npixfix = 0

\* C6: an empty list of files ends the call with a ValueError: no file is
\* loaded and no frame or header is returned
NoFilesRaises ==
    call.n = 0 =>
        /\ pc \in {"start", "done"}
        /\ n_loaded = 0
        /\ pc = "done" =>
              outcome = "ValueError" /\ result = NoImage /\ head = NoHead

NoFilesRaised ==
    /\ call.n = 0
    /\ pc = "done"
    /\ outcome = "ValueError"
    /\ n_loaded = 0
    /\ result = NoImage

\* C7: with two or more files that are not all of one geometry the call
\* ends with an error and returns no frame
MismatchedGeometryFails ==
    (call.n >= 2 /\ ~SameGeometry /\ pc = "done") => outcome # "returned"

----------------------------------------------------------------------------
(* Properties of the cosmic ray scenario (SpecCR).                         *)

\* C4: the combined value at the pixel of the hit is within 1% of 500,
\* that is between 495 and 505
CosmicRayValueWithinOnePercent ==
    Returned =>
        /\ RLe(RInt(495), result.data[<<call.hitr, call.hitc>>])
        /\ RLe(result.data[<<call.hitr, call.hitc>>], RInt(505))

\* C5: exactly one pixel of one frame is flagged over the whole
\* combination, the hit itself, and the recorded count is 1
CosmicRayCountOne ==
    Returned =>
        /\ head.npixfix = 1
        /\ flagged = {<<call.hitf, call.hitr, call.hitc>>}

----------------------------------------------------------------------------
(* Properties of calculate_probability (SpecProb) and running_sum          *)
(* (SpecSum).                                                              *)

\* the sum over the frames of column c of a stack of rows
ColumnSum(arr, c) == RSum([f \in DOMAIN arr |-> arr[f][c]])

\* the columns of the returned probabilities where the weights (the
\* windowed sums or medians of the frames) have a positive sum
PositiveColumns ==
    {c \in 0..(NCols(ret) - 1) :
        RPos(ColumnSum(weights_of(args.arr, args.size, args.method), c))}

\* C8 as the code has it: where the sum of the weights over the frames is
\* positive, the probabilities of the N frames sum to 1 for method "sum"
\* and to N for method "median"
ProbabilityNormalized ==
    pc = "done" =>
        \A c \in PositiveColumns :
            ColumnSum(ret, c) = IF args.method = "sum" THEN RInt(1)
                                ELSE RInt(Width(args.arr))

\* C8 as stated: where the sum of the weights over the frames is positive,
\* the probabilities of the N frames sum to 1, for either method
ProbabilitySumsToOne ==
    pc = "done" => \A c \in PositiveColumns : ColumnSum(ret, c) = RInt(1)

MedianProbabilitySumsToN ==
    /\ pc = "done"
    /\ args.method = "median"
    /\ Width(args.arr) = MaxFrames
    /\ args.size = 2
    /\ PositiveColumns # {}
    /\ \A c \in PositiveColumns : ColumnSum(ret, c) = RInt(MaxFrames)
    /\ \E f \in DOMAIN ret : ret[f][0] # RInt(1)

\* C9: for an odd size w of at most the length L of the rows, running_sum
\* returns L - w + 1 values for each row, the i-th of them the sum of the
\* w values of the row from i on
RunningSumIsWindowedSum ==
    (pc = "done" /\ args.size % 2 = 1) =>
        \A f \in DOMAIN args.arr :
            /\ DOMAIN ret[f] = 0..(Width(args.arr[f]) - args.size)
            /\ \A i \in DOMAIN ret[f] :
                  ret[f][i] = naive_sum(args.arr[f], i, args.size)

RunningSumOfThree ==
    /\ pc = "done"
    /\ args.size = 3
    /\ NCols(args.arr) = MaxLen
    /\ Width(ret[0]) = MaxLen - 2
    /\ args.arr[0][0] = RInt(-1)
    /\ args.arr[0][MaxLen - 1] = RInt(MaxValue)
    /\ ret[0][0] # ret[0][1]

----------------------------------------------------------------------------
(* Properties of combine_calibrate (SpecCal).                              *)

\* an all-zero bias, an all-ones flat, the default scaling options
ZeroBiasUnitFlat ==
    /\ call.entry = "combine_calibrate"
    /\ call.bias # "none"
    /\ \A k \in DOMAIN call.bias_coeffs : call.bias_coeffs[k] = 0
    /\ call.norm = "2d"
    /\ call.norm_value = 1
    /\ call.bias_scaling = "exposure_time"
    /\ call.norm_scaling = "divide"

\* C10: with an all-zero bias, an all-ones flat and the default scaling
\* options combine_calibrate returns the frame combine_frames returned,
\* and fails only where combine_frames fails
CalibrationIdentity ==
    ZeroBiasUnitFlat =>
        /\ pc = "calibrate" => ~(BiasFails \/ NormFails)
        /\ Returned => orig = result

CalibrationIdentityReturned ==
    /\ ZeroBiasUnitFlat
    /\ Returned
    /\ call.n = MaxFiles
    /\ call.bhead_exptime = 0
    /\ call.level = 2
    /\ orig = result
    /\ orig.data[<<0, 0>>] = RInt(2 * MaxFiles)

----------------------------------------------------------------------------
(* Further properties of combine_calibrate (SpecCal).                      *)

\* one of the two scaling options is not among the values allowed
UnknownScaling ==
    \/ call.bias_scaling \notin BiasScalings
    \/ call.norm_scaling \notin NormScalings

\* C11: a call of combine_calibrate with a bias_scaling or a norm_scaling
\* that is not among the allowed values ends with a ValueError and returns
\* no frame, whether or not a bias or a flat is passed
UnknownScalingFails ==
    (call.entry = "combine_calibrate" /\ UnknownScaling /\ pc = "done") =>
        outcome = "ValueError" /\ orig = NoImage

----------------------------------------------------------------------------
(* Properties of the returned header (Spec).                               *)

\* C12: whatever the number of files, the returned header records the sum
\* of the exposure times, the number of files and the number of fixed
\* pixels
MetadataRecorded ==
    Returned =>
        /\ head.exptime = total_exposure_time
        /\ head.nimages = call.n
        /\ head.npixfix = n_fixed

\* the read noise of amplifier section k as the header of a file gives it
SectionReadNoise(k) == IF k = 1 THEN call.readn ELSE call.readn2

\* C13: with two or more files the returned header holds, for every
\* amplifier section k, the read noise of the section times sqrt(N)
ReadNoiseScaled ==
    (Returned /\ call.n >= 2) =>
        /\ DOMAIN head.rdnoise = 1..call.ampl
        /\ \A k \in 1..call.ampl :
              head.rdnoise[k] = <<RInt(SectionReadNoise(k)), call.n>>

\* three or more files, two sections: both read noise entries are written
ReadNoiseOfTwoSections ==
    /\ Returned
    /\ call.n >= 3
    /\ call.ampl = 2
    /\ head.rdnoise = <<(<<RInt(1), call.n>>), (<<RInt(2), call.n>>)>>

----------------------------------------------------------------------------
(* Properties of the window and of the linearity flag (Spec).              *)

\* the window passed does not fit the image: window >= n_columns / 2
WindowTooWide == 2 * call.window >= call.cols

\* C14: a call with three or more files of one geometry and linear data,
\* of which the window does not fit the image, goes on with the window
\* n_columns // 10 and returns
ClampedWindowCompletes ==
    (/\ call.n >= 3
     /\ call.header_only = "pair"
     /\ call.linear
     /\ SameGeometry
     /\ WindowTooWide
     /\ pc = "done") =>
        outcome = "returned" /\ window = call.cols \div 10

\* C15: with one or more files whose headers say that the data are not
\* linear, the call ends with a NotImplementedError and returns no frame
NonLinearFails ==
    (call.n >= 1 /\ ~call.linear /\ pc = "done") =>
        outcome = "NotImplementedError" /\ result = NoImage

----------------------------------------------------------------------------
(* Properties of combine_bias (SpecBias).                                  *)

\* the two halves, each divided by the number of its files, when the
\* second half has been combined
Half1 == list1.bias1

Half2 == DivideImage(result, n2)

HalvesCombined ==
    /\ pc = "half"
    /\ half = 2
    /\ Broadcastable(Half1.shape, Half2.shape)
    /\ 0 \notin {Half1.shape[1], Half1.shape[2], Half2.shape[1], Half2.shape[2]}

\* all values of 0.5 * (half1 - half2) are equal
ConstantDifference ==
    /\ HalvesCombined
    /\ \A p, q \in Pixels(BroadcastShape(Half1.shape, Half2.shape)[1],
                          BroadcastShape(Half1.shape, Half2.shape)[2]) :
          RSub(Half1.data[BroadcastIndex(Half1.shape, p)],
               Half2.data[BroadcastIndex(Half2.shape, p)])
          = RSub(Half1.data[BroadcastIndex(Half1.shape, q)],
                 Half2.data[BroadcastIndex(Half2.shape, q)])

\* (n1 * half1 + n2 * half2) / N at pixel rc
WeightedMean(rc) ==
    RDiv(RAdd(RMul(RInt(n1), Half1.data[BroadcastIndex(Half1.shape, rc)]),
              RMul(RInt(n2), Half2.data[BroadcastIndex(Half2.shape, rc)])),
         RInt(n1 + n2))

\* C16: when the difference image of the two halves is constant,
\* combine_bias returns: it records the noise 1.0 and 0 bad pixels, and
\* every pixel of the bias is the normalized sum of the two halves
ConstantDifferenceReturns ==
    [][ConstantDifference =>
          /\ outcome' = "returned"
          /\ head'.bgnoise = RInt(1)
          /\ head'.npixfix = 0
          /\ result'.shape = BroadcastShape(Half1.shape, Half2.shape)
          /\ \A rc \in DOMAIN result'.data :
                result'.data[rc] = WeightedMean(rc)]_vars

\* halves of two and of three files that differ by a constant were combined
ConstantDifferenceReturned ==
    /\ call.entry = "combine_bias"
    /\ pc = "done"
    /\ outcome = "returned"
    /\ call.total = 5
    /\ call.ramp = 1
    /\ call.hitf = -1
    /\ call.odd = -1
    /\ head.bgnoise = RInt(1)
    /\ head.npixfix = 0
    /\ head.nimages = 5
    /\ result.data[<<0, 0>>] # list1.bias1.data[<<0, 0>>]

----------------------------------------------------------------------------
(* Properties of run_steps and main (SpecSteps).                           *)

NoSteps == ~args.all /\ args.steps = << >>

\* C17: run_steps with an empty list of steps invokes run or load of no
\* module and returns a mapping with the initial "files" and "config"
\* entries; main returns the list of one such mapping for each file set
EmptyStepsReturnData ==
    (NoSteps /\ pc = "done") =>
        /\ outcome = "returned"
        /\ ret.invoked = {}
        /\ Len(ret.output) = args.sets
        /\ \A i \in DOMAIN ret.output :
              /\ {"files", "config"} \subseteq DOMAIN ret.output[i]
              /\ ret.output[i]["files"] = "classified_files"
              /\ ret.output[i]["config"] = "config"

\* main has returned the mappings of MaxSets file sets, no step given
EmptyStepsReturned ==
    /\ NoSteps
    /\ args.entry = "main"
    /\ args.sets = MaxSets
    /\ pc = "done"
    /\ outcome = "returned"
    /\ Len(ret.output) = MaxSets
    /\ DOMAIN ret.output[MaxSets] = {"files", "config"}

----------------------------------------------------------------------------
(* Properties of fix_bad_pixels (SpecFix).                                 *)

Frames == DOMAIN args.buffer

Columns == 0..(NCols(args.buffer) - 1)

\* fitted_signal[:, c] and the square of predicted_noise[:, c]
Fitted(c) ==
    fitted_signal(column(args.probability, c), column(args.buffer, c))

Noise2(c) == predicted_noise2(Fitted(c), args.readnoise, args.gain)

\* buffer[f, c] - fitted_signal[f, c]
Excess(f, c) == RSub(args.buffer[f][c], Fitted(c)[f])

\* x > t * sqrt(s2), decided from the signs and the squares
Exceeds(x, t, s2) ==
    IF t[1] >= 0
    THEN RPos(x) /\ RLt(RMul(RMul(t, t), s2), RMul(x, x))
    ELSE \/ RPos(x)
         \/ x[1] = 0 /\ RPos(RMul(RMul(t, t), s2))
         \/ x[1] < 0 /\ RLt(RMul(x, x), RMul(RMul(t, t), s2))

Flagged(f, c) == Exceeds(Excess(f, c), args.threshold, Noise2(c)[f])

\* C18: a pixel is flagged exactly when it exceeds the fit by more than
\* threshold times the predicted noise; with a threshold of 0 or more no
\* value at or below the fit is flagged; the returned row is the sum over
\* the frames of the fit where flagged and of the buffer elsewhere, and the
\* returned count is the number of flagged pixels
FlagRule ==
    pc = "done" =>
        /\ \A c \in Columns : \A f \in Frames :
              /\ f \in ret.bad[c] <=> Flagged(f, c)
              /\ (args.threshold[1] >= 0 /\ Excess(f, c)[1] <= 0) =>
                     f \notin ret.bad[c]
        /\ \A c \in Columns :
              ret.corrected_signal[c] =
                  RSum([f \in Frames |-> IF Flagged(f, c) THEN Fitted(c)[f]
                                         ELSE args.buffer[f][c]])
        /\ ret.nbad = Cardinality({fc \in Frames \X Columns :
                                      Flagged(fc[1], fc[2])})

\* one hit in each of two columns was flagged and replaced by the fit, and
\* the frames at the fit were left alone
FlaggedTwo ==
    /\ pc = "done"
    /\ args.threshold = <<7, 2>>
    /\ Columns = {0, 1}
    /\ ret.nbad = 2
    /\ ret.bad[0] = {2}
    /\ ret.bad[1] = {1}
    /\ ret.corrected_signal[0] = RInt(Cardinality(Frames))
    /\ \A f \in Frames \ {2} : Excess(f, 0)[1] = 0

MaxRaise == 2

\* ratio[:, c], written out
Ratio(c) ==
    [f \in Frames |->
        IF args.probability[f][c][1] > 0
        THEN RDiv(args.buffer[f][c], args.probability[f][c]) ELSE RZero]

\* amplitude[c] for the values b in column c
Amplitude(c, b) == amplitude(column(args.probability, c), b)

\* the values of column c with that of frame f changed by d
Moved(c, f, d) ==
    [g \in Frames |-> IF g = f THEN RAdd(args.buffer[g][c], RInt(d))
                      ELSE args.buffer[g][c]]

\* C19: the amplitude of a column is the sum of the ratios less the
\* smallest and the largest, over N - 2; raising the value of a frame that
\* holds the largest ratio, or lowering that of one that holds the
\* smallest, leaves the amplitude as it was
TrimmedMeanRobust ==
    pc = "done" =>
        \A c \in Columns :
            /\ \E lo, hi \in Frames :
                  /\ \A f \in Frames : RLe(Ratio(c)[lo], Ratio(c)[f])
                  /\ \A f \in Frames : RLe(Ratio(c)[f], Ratio(c)[hi])
                  /\ Amplitude(c, column(args.buffer, c)) =
                        RDiv(RSub(RSub(RSum(Ratio(c)), Ratio(c)[lo]),
                                  Ratio(c)[hi]),
                             RInt(Cardinality(Frames) - 2))
            /\ \A f \in Frames : \A d \in 1..MaxRaise :
                  /\ (\A g \in Frames : RLe(Ratio(c)[g], Ratio(c)[f])) =>
                        Amplitude(c, Moved(c, f, d)) =
                            Amplitude(c, column(args.buffer, c))
                  /\ (\A g \in Frames : RLe(Ratio(c)[f], Ratio(c)[g])) =>
                        Amplitude(c, Moved(c, f, -d)) =
                            Amplitude(c, column(args.buffer, c))

\* a column of ones with one frame hit, of equal probabilities: the hit
\* holds the largest ratio and the amplitude is that of the other frames
HitTrimmed ==
    /\ pc = "done"
    /\ args.buffer[2][0] = RInt(HitValue)
    /\ \A f \in Frames : args.probability[f][0] = Rat(1, Cardinality(Frames))
    /\ \A f \in Frames \ {2} : RLt(Ratio(0)[f], Ratio(0)[2])
    /\ Amplitude(0, column(args.buffer, 0)) = RInt(Cardinality(Frames))
    /\ Amplitude(0, Moved(0, 2, MaxRaise)) = RInt(Cardinality(Frames))

\* readnoise ** 2 + fitted_signal[f, c] / gain
NoiseSum(f, c) ==
    RAdd(RMul(args.readnoise, args.readnoise), RDiv(Fitted(c)[f], args.gain))

----------------------------------------------------------------------------
(* Properties of the edge extrapolation (Spec).                            *)

\* the probabilities of a row have been extrapolated, in a section wide
\* enough for the edges to be taken from columns of the central part
Extrapolated ==
    /\ pc = "fix"
    /\ window >= 1
    /\ NCols(probability) >= 3 * window + 1

\* C21: at the left end column c holds 2 * probability[w] -
\* probability[2w - c], and at the right end it holds
\* 2 * probability[L - w - 1] - probability[2 (L - w - 1) - c], the mirror
\* image of the left end
EdgeReflection ==
    Extrapolated =>
        \A f \in DOMAIN probability :
            /\ \A c \in 0..(window - 1) :
                  probability[f][c] =
                      RSub(RMul(RInt(2), probability[f][window]),
                           probability[f][2 * window - c])
            /\ \A c \in (NCols(probability) - window)..(NCols(probability) - 1) :
                  probability[f][c] =
                      RSub(RMul(RInt(2),
                                probability[f][NCols(probability) - window - 1]),
                           probability[f][2 * (NCols(probability) - window - 1) - c])

----------------------------------------------------------------------------
(* Properties of the loop over the rows (Spec).                            *)

\* what fix_bad_pixels gives for the current row, with the probabilities p
RowFix(p) ==
    fix_bad_pixels(p, buffer, Section(Header(0), amplifier).readnoise,
                   Section(Header(0), amplifier).gain, call.threshold)

\* the probabilities of the current row when it is the first of its
\* section to be processed
AloneProbability ==
    extrapolate(Zeros(call.n, NCols(buffer)), buffer, window)

\* C22: the combined values and the flagged pixels of a row depend on the
\* values of that row in its section only: they are those the row gets
\* when it is processed before every other row
RowIndependent ==
    pc = "fix" =>
        /\ RowFix(probability).corrected_signal =
               RowFix(AloneProbability).corrected_signal
        /\ RowFix(probability).bad = RowFix(AloneProbability).bad

\* the difference image 0.5 * (half1 - half2) at pixel rc
HalfDifference(rc) ==
    RMul(<<1, 2>>, RSub(Half1.data[BroadcastIndex(Half1.shape, rc)],
                        Half2.data[BroadcastIndex(Half2.shape, rc)]))

\* min(half1, half2) at pixel rc
LowerHalf(rc) ==
    IF RLe(Half1.data[BroadcastIndex(Half1.shape, rc)],
           Half2.data[BroadcastIndex(Half2.shape, rc)])
    THEN Half1.data[BroadcastIndex(Half1.shape, rc)]
    ELSE Half2.data[BroadcastIndex(Half2.shape, rc)]

\* the pixels outside of the open range (g_min, g_max)
OutsideGoodRange(g_min, g_max) ==
    {rc \in Pixels(BroadcastShape(Half1.shape, Half2.shape)[1],
                   BroadcastShape(Half1.shape, Half2.shape)[2]) :
        RLe(HalfDifference(rc), g_min) \/ RLe(g_max, HalfDifference(rc))}

\* C23: when combine_bias returns for two halves whose difference image
\* varies, the pixels with diff <= g_min or diff >= g_max, where diff is
\* 0.5 * (half1 - half2), hold min(half1, half2), every other pixel holds
\* (n1 * half1 + n2 * half2) / N, and the recorded number of bad pixels is
\* the number of the pixels with diff <= g_min or diff >= g_max
BadPixelsReplaced ==
    [][(HalvesCombined /\ ~ConstantDifference /\ outcome' = "returned") =>
          /\ DOMAIN result'.data
             = Pixels(BroadcastShape(Half1.shape, Half2.shape)[1],
                      BroadcastShape(Half1.shape, Half2.shape)[2])
          /\ \A rc \in DOMAIN result'.data :
                result'.data[rc]
                = IF rc \in OutsideGoodRange(ret'.gmin, ret'.gmax)
                  THEN LowerHalf(rc)
                  ELSE WeightedMean(rc)
          /\ head'.npixfix
             = Cardinality(OutsideGoodRange(ret'.gmin, ret'.gmax))]_vars

\* a bias was returned in which some pixels, but not all, were replaced
SomePixelsReplaced ==
    /\ call.entry = "combine_bias"
    /\ pc = "done"
    /\ outcome = "returned"
    /\ ret.fitted
    /\ head.npixfix > 0
    /\ head.npixfix < Cardinality(DOMAIN result.data)

\* combine_bias returned after the fit of the histogram
FitReturned ==
    /\ call.entry = "combine_bias"
    /\ pc = "done"
    /\ outcome = "returned"
    /\ ret.fitted

\* C24: the good range of combine_bias is one run of bins: every bin whose
\* centre lies between g_min and g_max has a smoothed contamination below
\* 3 times the restricted standard deviation
GoodRangeContiguous ==
    FitReturned =>
        \A k \in DOMAIN ret.xh :
            (RLe(ret.gmin, ret.xh[k]) /\ RLe(ret.xh[k], ret.gmax))
                => k \in ret.igood

\* C25: the noise of the combined image that combine_bias records is
\* gain * sigma * sqrt(N): its square is (gain * sigma)^2 * N
RecordedNoiseScaled ==
    FitReturned =>
        RMul(head.bgnoise, head.bgnoise)
        = RMul(RMul(RMul(Header(head_file).e_gain[1], ret.noise),
                    RMul(Header(head_file).e_gain[1], ret.noise)),
               RInt(n_bias))

\* C25 (amended): the noise of the combined image that combine_bias
\* records after the fit is gain * sigma
RecordedNoiseIsReadNoise ==
    FitReturned => head.bgnoise = RMul(RInt(call.gain), ret.noise)

\* a bias of an instrument with gain 2 was returned after the fit
NoiseRecordedWithGain ==
    /\ FitReturned
    /\ call.gain = 2
    /\ call.total >= 3

\* the difference image of the two halves varies
VaryingDifference ==
    /\ HalvesCombined
    /\ ~ConstantDifference

\* the median of the absolute values of 0.5 * (half1 - half2)
MedianDifference ==
    ImageMedian(AbsImage(half_difference(Half1, Half2)))

\* C30: combine_bias returns a bias with its header for two halves whose
\* difference image is not constant; in particular it does so when the
\* median absolute difference is 0 although some pixels differ
VaryingDifferenceReturns ==
    [][(VaryingDifference /\ MedianDifference = RZero) =>
          /\ outcome' = "returned"
          /\ result' # NoImage
          /\ head' # NoHead]_vars

(* Properties of the exposure time scaling of combine_calibrate (SpecCal). *)

\* combine_calibrate returned for a 2-D bias scaled with the exposure time
ExposureScaled ==
    /\ call.entry = "combine_calibrate"
    /\ pc = "done"
    /\ outcome = "returned"
    /\ call.bias = "2d"
    /\ call.bias_scaling = "exposure_time"

\* combined exposure time / bias exposure time, or the number of files for
\* a bias without exposure time
ExposureFactor ==
    IF call.bhead_exptime = 0 THEN RInt(call.n)
    ELSE RDiv(RInt(ExpSum(call.n - 1)), RInt(call.bhead_exptime))

\* x divided by the normalized flat, if there is one
FlatRemoved(x) ==
    IF call.norm # "none" /\ call.norm_scaling = "divide"
    THEN RDiv(x, RInt(call.norm_value)) ELSE x

\* C26: with a 2-D bias and bias_scaling = exposure_time, combine_calibrate
\* subtracts bias * (combined exposure time / bias exposure time), or
\* bias * N when the bias exposure time is zero, and divides by the
\* normalized flat after the subtraction
ExposureScaledBiasSubtracted ==
    ExposureScaled =>
        \A rc \in DOMAIN result.data :
            orig.data[rc]
            = FlatRemoved(RSub(result.data[rc],
                               RMul(RInt(call.bias_coeffs[Len(call.bias_coeffs)]),
                                    ExposureFactor)))

\* three files were calibrated with a bias without exposure time and a flat
FallbackScalingApplied ==
    /\ ExposureScaled
    /\ call.bhead_exptime = 0
    /\ call.n = 3
    /\ call.norm = "2d"
    /\ call.norm_value = 2
    /\ call.norm_scaling = "divide"
    /\ \E rc \in DOMAIN orig.data : orig.data[rc] # result.data[rc]

(* Properties of Reducer.run_module and of the order of the steps          *)
(* (SpecSteps).                                                            *)

\* C27: run_module of the Reducer of reducer.py resolves the dependencies of
\* a step: when it is called for a step, it ends with the run of the step
\* invoked and with a result in data for the step and for every step it
\* declares as a dependency, mask for bias for example
DependenciesResolved ==
    [][(pc = "run_module" /\ ret.steps # << >> /\ args.source = "reducer.py") =>
          /\ <<Head(ret.steps), "run">> \in ret'.invoked
          /\ Head(ret.steps) \in DOMAIN ret'.data
          /\ declared_depends_on(Head(ret.steps)) \subseteq DOMAIN ret'.data]_vars

\* the steps that are requested
Requested == StepsOf(IF args.all THEN AllSteps(args.source) ELSE args.steps)

\* the output of every science file exists and run_steps returns early
AllExist == args.skip_existing /\ "finalize" \in Requested /\ args.exists

\* the steps of seq are in ascending step_order
Ascending(seq) ==
    \A i, j \in DOMAIN seq :
        i < j => step_order(args.source)[seq[i]] < step_order(args.source)[seq[j]]

\* the data a Reducer starts with, which are no steps
NotSteps == {"files", "config"}

\* C28: run_steps runs the requested steps in ascending step_order,
\* whatever the order in which they are listed, and every step that a
\* requested step declares as a run dependency has a smaller step_order
StepsRunInOrder ==
    [][(pc = "run_steps" /\ ~AllExist) =>
          /\ pc' = "run_module"
          /\ StepsOf(ret'.steps) = Requested
          /\ Ascending(ret'.steps)
          /\ \A s \in Requested :
                \A d \in declared_depends_on(s) \ NotSteps :
                    /\ d \in DOMAIN step_order(args.source)
                    /\ step_order(args.source)[d] < step_order(args.source)[s]]_vars

\* the plain sum over the frames of the values at column c
PlainSum(c) == RSum([f \in Frames |-> args.buffer[f][c]])

\* C29: for a threshold of 0 or more, every element of the row returned by
\* fix_bad_pixels is at most the plain sum over the frames at its column,
\* and equal to it exactly where no frame was flagged; a returned count of
\* 0 means that the row is the plain sum
RejectionOnlyLowers ==
    (pc = "done" /\ args.threshold[1] >= 0) =>
        /\ \A c \in Columns :
              /\ RLe(ret.corrected_signal[c], PlainSum(c))
              /\ ret.corrected_signal[c] = PlainSum(c) <=> ret.bad[c] = {}
        /\ ret.nbad = 0 =>
              \A c \in Columns : ret.corrected_signal[c] = PlainSum(c)

\* a hit was flagged in one column and lowered its sum, and the other
\* column kept its plain sum
OneColumnLowered ==
    /\ pc = "done"
    /\ args.threshold = RZero
    /\ Columns = {0, 1}
    /\ ret.bad[0] # {}
    /\ ret.bad[1] = {}
    /\ RLt(ret.corrected_signal[0], PlainSum(0))
    /\ ret.corrected_signal[1] = PlainSum(1)

====
